---- MODULE Spec2Model ----
(***************************************************************************)
(* Model of scripts/agent_watch.py: the baseline diff engine               *)
(* (_schema_diff) and the severity decision of main() with its post-pass   *)
(* override.                                                               *)
(*                                                                         *)
(* Three specifications:                                                   *)
(*   SpecDiff  applies _schema_diff to a pair of type->keys maps, in both  *)
(*             argument orders.                                            *)
(*   SpecPick  applies _pick_severity to every combination of its inputs.  *)
(*   Spec      one iteration of main()'s per-agent loop, from the version  *)
(*             signals to the recorded (severity, recommendation).         *)
(*                                                                         *)
(* and, for the parts of agent_watch.py and scan_tool_formats.py that Spec *)
(* draws as inputs or leaves out:                                          *)
(*   SpecBraces       extract_balanced_braces on texts.                    *)
(*   SpecCatalog      add_tool_block fed by two scans of the same blocks.  *)
(*   SpecFingerprint  the schema fingerprint of one session file.          *)
(*   SpecMerge        _merge_type_keys on fingerprints in any order.       *)
(*   SpecBaseline     _baseline_type_keys_for_agent and its report.        *)
(*   SpecUpstream     main()'s loop over the upstream sources.             *)
(*   SpecProbe        main()'s loop over the weekly probes.                *)
(*   SpecRun          a whole run of main(): every agent, then the report, *)
(*                    the summary and the exit code.                       *)
(* and for purge_droid_test_sessions.py and purge_no_prompt_sessions.py:   *)
(*   SpecPurge        one run of either script over a set of session files.*)
(***************************************************************************)
EXTENDS Bags, Integers, Sequences, FiniteSets, TLC

(***************************************************************************)
(* Bounds.                                                                 *)
(***************************************************************************)
\* number of logical types a type->keys map may mention
MaxTypes == 1
\* number of field names a type may carry in the maps SpecDiff compares
MaxKeys == 3
\* number of field names per type in the evidence files main() fingerprints
WatchKeys == 1
\* number of upstream sources an agent's configuration may list
MaxSources == 2
\* semantic versions are ordered; 0..MaxVersion stands for that order
MaxVersion == 1

\* length of the texts extract_balanced_braces is applied to
MaxText == 7

\* add_tool_block calls of one scan
MaxBlocks == 2
\* largest value of max_examples_per_group and max_examples_per_shape
MaxCap == 1

\* lines of a JSONL session file, messages of a Gemini session document
MaxLines == 3
\* session files a purge run looks at
MaxFiles == 2
\* message files of an OpenCode session
MaxMessages == 2
\* part files of an OpenCode message
MaxPartFiles == 1

\* fingerprints handed to _merge_type_keys
MaxFingerprints == 2

\* entries of one producer's list in the evidence matrix
MaxPaths == 2

\* probes configured for one producer
MaxProbes == 2

TypeUniverse == <<"message.user", "message.assistant", "tool_call", "<missing-type>">>
KeyUniverse == <<"role", "content", "attachments", "id", "timestamp">>

Types == {TypeUniverse[i] : i \in 1..MaxTypes}
Keys == {KeyUniverse[i] : i \in 1..MaxKeys}
WatchKeySet == {KeyUniverse[i] : i \in 1..WatchKeys}

\* every dict[str, list[str]] over the given types and keys; a key list is
\* only ever read through set(...), so it is modelled as the set it denotes
TypeKeyMaps(ts, ks) == UNION {[D -> SUBSET ks] : D \in SUBSET ts}

\* Python's None for the optional values of main()
None == "None"

(***************************************************************************)
(* _schema_diff                                                            *)
(***************************************************************************)
\* dict.get(t, []) followed by set(...)
KeysOf(type_keys, t) == IF t \in DOMAIN type_keys THEN type_keys[t] ELSE {}

\* sorted(observed_types - baseline_types)
UnknownTypes(observed_types, baseline_types) == observed_types \ baseline_types

MissingTypesSwapped(baseline_types, observed_types) == observed_types \ baseline_types
\* sorted(baseline_types - observed_types)
MissingTypes(baseline_types, observed_types) == baseline_types \ observed_types

ExtraKeysNoSubtract(o, b) == o
ExtraKeysSymmetric(o, b) == (o \ b) \cup (b \ o)
\* extra = sorted(o - b)
ExtraKeys(o, b) == o \ b

\* miss = sorted(b - o)
MissKeys(o, b) == b \ o

UnknownOnlyIsEmptyCountsMissing(unknown_types, missing_types, unknown_keys, missing_keys) ==
    /\ unknown_types = {}
    /\ missing_types = {}
    /\ DOMAIN unknown_keys = {}
    /\ DOMAIN missing_keys = {}
\* unknown_only_is_empty = (not unknown_types and not unknown_keys)
UnknownOnlyIsEmpty(unknown_types, missing_types, unknown_keys, missing_keys) ==
    /\ unknown_types = {}
    /\ DOMAIN unknown_keys = {}

_schema_diff(observed_type_keys, baseline_type_keys) ==
    LET observed_types == DOMAIN observed_type_keys
        baseline_types == DOMAIN baseline_type_keys
        unknown_types == UnknownTypes(observed_types, baseline_types)
        missing_types == MissingTypes(baseline_types, observed_types)
        all_types == observed_types \cup baseline_types
        extra(t) == ExtraKeys(KeysOf(observed_type_keys, t), KeysOf(baseline_type_keys, t))
        miss(t) == MissKeys(KeysOf(observed_type_keys, t), KeysOf(baseline_type_keys, t))
        \* "if extra:" / "if miss:" keep only the types with a non-empty difference
        unknown_keys == [t \in {u \in all_types : extra(u) # {}} |-> extra(t)]
        missing_keys == [t \in {u \in all_types : miss(u) # {}} |-> miss(t)]
    IN  [unknown_types |-> unknown_types,
         missing_types |-> missing_types,
         unknown_keys |-> unknown_keys,
         missing_keys |-> missing_keys,
         unknown_only_is_empty |->
             UnknownOnlyIsEmpty(unknown_types, missing_types, unknown_keys, missing_keys),
         is_empty |-> (unknown_types = {} /\ missing_types = {}
                       /\ DOMAIN unknown_keys = {} /\ DOMAIN missing_keys = {})]

\* the drift verdict of a SchemaDiff: the negation of unknown_only_is_empty
Drift(d) == ~d.unknown_only_is_empty

(***************************************************************************)
(* Version comparison and keyword hits.                                    *)
(***************************************************************************)
\* a version string as main() holds it: None, a string without a semantic
\* version in it, or a semantic version (its rank in the Semver order)
VersionVals == {<<"none">>, <<"text">>} \cup {<<"semver", n>> : n \in 0..MaxVersion}
IsSemver(v) == v[1] = "semver"

\* <<>> is None; <<-1>>, <<0>>, <<1>> are the three verdicts
_compare_semver(a, b) ==
    IF ~IsSemver(a) \/ ~IsSemver(b) THEN <<>>
    ELSE IF a[2] < b[2] THEN <<-1>>
    ELSE IF a[2] > b[2] THEN <<1>>
    ELSE <<0>>

\* risk_keywords of the agent's configuration
schema_keywords == {"schema"}
usage_keywords == {"rate limit"}

\* the text is modelled by the set of keywords that occur in it; the empty
\* text ("if not text") contains none
_keyword_hits(text, keywords) == {k \in keywords : k \in text}

(***************************************************************************)
(* _pick_severity                                                          *)
(***************************************************************************)
_pick_severity_keywords_first(upstream_newer, installed_newer, mon_failed, s_hits, u_hits, p_failed, p_degraded) ==
    IF mon_failed THEN <<"high", "prepare_hotfix">>
    ELSE IF p_failed /\ ~p_degraded THEN <<"high", "prepare_hotfix">>
    ELSE IF p_failed /\ p_degraded THEN <<"medium", "monitor">>
    ELSE IF installed_newer THEN <<"medium", "run_weekly_now">>
    ELSE IF s_hits # {} \/ u_hits # {} THEN <<"medium", "run_weekly_now">>
    ELSE IF ~upstream_newer /\ ~installed_newer THEN <<"none", "ignore">>
    ELSE <<"low", "monitor">>
_pick_severity(upstream_newer, installed_newer, mon_failed, s_hits, u_hits, p_failed, p_degraded) ==
    IF mon_failed THEN <<"high", "prepare_hotfix">>
    ELSE IF p_failed /\ ~p_degraded THEN <<"high", "prepare_hotfix">>
    ELSE IF p_failed /\ p_degraded THEN <<"medium", "monitor">>
    ELSE IF installed_newer THEN <<"medium", "run_weekly_now">>
    ELSE IF ~upstream_newer /\ ~installed_newer THEN <<"none", "ignore">>
    ELSE IF s_hits # {} \/ u_hits # {} THEN <<"medium", "run_weekly_now">>
    ELSE <<"low", "monitor">>

(***************************************************************************)
(* The pieces of main() the decision depends on.                           *)
(***************************************************************************)
AgentNames == {"claude", "codex"}
Modes == {"daily", "weekly"}

\* outcome of one _fetch_upstream call: ok with a version (possibly None
\* or not a semantic version), or a failure
FetchResults == [ok : BOOLEAN, version : VersionVals]
SourceLists == UNION {[1..n -> FetchResults] : n \in 0..MaxSources}

\* the "for s in upstream_sources" loop: the first ok result is used
FirstOk(results) ==
    LET oks == {i \in DOMAIN results : results[i].ok}
    IN  IF oks = {} THEN 0 ELSE CHOOSE i \in oks : \A j \in oks : i <= j

\* schema_matches_baseline = bool(schema_diff.get("unknown_only_is_empty"))
SchemaMatchesIsEmpty(d) == IF d.is_empty THEN "True" ELSE "False"
SchemaMatches(d) == IF d.unknown_only_is_empty THEN "True" ELSE "False"

\* result of one _run_probe_script call as main() reads it: label, ok, and
\* whether "parsed" is a dict reporting a degraded service ("degraded"), a
\* dict reporting a healthy one ("healthy"), or not a dict ("null")
\* "parsed" is only read for the probe labelled claude_status
ProbeLabels == {"claude_status", "claude_usage_probe", "probe"}
ProbeResults == [ok : BOOLEAN, parsed : {"null", "healthy", "degraded"}]
ProbeResultsOf(label) ==
    IF label = "claude_status" THEN ProbeResults
    ELSE {r \in ProbeResults : r.parsed = "null"}

\* probe_results: the labels of a configuration are distinct, so the list is
\* modelled as the function from the configured labels to their results
ProbeRuns ==
    UNION {{f \in [L -> ProbeResults] : \A l \in L : f[l] \in ProbeResultsOf(l)} :
           L \in SUBSET ProbeLabels}

\* next((pr for pr in probe_results if pr.get("label") == label), None)
FirstWithLabel(probe_results, label) ==
    IF label \in DOMAIN probe_results THEN <<probe_results[label]>> ELSE <<>>

UpstreamDegradedWhateverUsage(probe_results) ==
    LET status == FirstWithLabel(probe_results, "claude_status")
    IN  status # <<>> /\ status[1].parsed = "degraded"
\* "degraded and not usage_ok" for the claude agent
UpstreamDegraded(probe_results) ==
    LET status == FirstWithLabel(probe_results, "claude_status")
        usage == FirstWithLabel(probe_results, "claude_usage_probe")
        status_is_dict == status # <<>> /\ status[1].parsed # "null"
        degraded == status # <<>> /\ status[1].parsed = "degraded"
        usage_ok == IF usage # <<>> THEN usage[1].ok ELSE TRUE
    IN  status_is_dict /\ degraded /\ ~usage_ok

\* the condition of the post-pass override
OverrideIgnoresSeverity(m, sev, installed_newer, matches, p_failed) ==
    /\ m = "weekly"
    /\ installed_newer
    /\ matches = "True"
    /\ ~p_failed
OverrideAnyNonNone(m, sev, installed_newer, matches, p_failed) ==
    /\ m = "weekly"
    /\ sev # "none"
    /\ installed_newer
    /\ matches = "True"
    /\ ~p_failed
OverrideIgnoresProbe(m, sev, installed_newer, matches, p_failed) ==
    /\ m = "weekly"
    /\ sev \in {"medium", "low"}
    /\ installed_newer
    /\ matches = "True"
OverrideOnlyLow(m, sev, installed_newer, matches, p_failed) ==
    /\ m = "weekly"
    /\ sev = "low"
    /\ installed_newer
    /\ matches = "True"
    /\ ~p_failed
OverrideApplies(m, sev, installed_newer, matches, p_failed) ==
    /\ m = "weekly"
    /\ sev \in {"medium", "low"}
    /\ installed_newer
    /\ matches = "True"
    /\ ~p_failed

(***************************************************************************)
(* scan_tool_formats.py: extract_balanced_braces                           *)
(***************************************************************************)
\* the characters the scanner tells apart, and one that stands for the rest
BraceChars == {"{", "}", "\"", "\\", "a"}
Texts(n) == UNION {[1..k -> BraceChars] : k \in 0..n}

\* the text of the specification's example: tool_name {"a": "b{c}", "d": 1}
ExampleText ==
    <<"t", "o", "o", "l", "_", "n", "a", "m", "e", " ",
      "{", "\"", "a", "\"", ":", " ", "\"", "b", "{", "c", "}", "\"", ",", " ",
      "\"", "d", "\"", ":", " ", "1", "}">>

StringStepNoEscape(ch, escape) == IF ch = "\"" THEN <<FALSE, FALSE>> ELSE <<TRUE, FALSE>>
\* one character read while in_string: the new <<in_string, escape>>
StringStep(ch, escape) ==
    IF escape THEN <<TRUE, FALSE>>
    ELSE IF ch = "\\" THEN <<TRUE, TRUE>>
    ELSE IF ch = "\"" THEN <<FALSE, FALSE>>
    ELSE <<TRUE, FALSE>>

RECURSIVE ScanBraces(_, _, _, _, _, _)
\* the "for i in range(start, len(text))" loop from index i on; indices count
\* from 1, <<>> is None
ScanBraces(text, start, i, in_string, escape, depth) ==
    IF i > Len(text) THEN <<>>
    ELSE LET ch == text[i] IN
        IF in_string
        THEN LET st == StringStep(ch, escape)
             IN  ScanBraces(text, start, i + 1, st[1], st[2], depth)
        ELSE IF ch = "\"" THEN ScanBraces(text, start, i + 1, TRUE, escape, depth)
        ELSE IF ch = "{" THEN ScanBraces(text, start, i + 1, FALSE, escape, depth + 1)
        ELSE IF ch = "}"
             THEN IF depth - 1 = 0 THEN <<SubSeq(text, start, i)>>
                  ELSE ScanBraces(text, start, i + 1, FALSE, escape, depth - 1)
        ELSE ScanBraces(text, start, i + 1, FALSE, escape, depth)

extract_balanced_braces(text, start) == ScanBraces(text, start, start, FALSE, FALSE, 0)

(***************************************************************************)
(* scan_tool_formats.py: normalize_token, normalize_tool_name,             *)
(* normalize_field_name on sequences of characters                         *)
(***************************************************************************)
UpperAlphabet ==
    <<"A", "B", "C", "D", "E", "F", "G", "H", "I", "J", "K", "L", "M",
      "N", "O", "P", "Q", "R", "S", "T", "U", "V", "W", "X", "Y", "Z">>
LowerAlphabet ==
    <<"a", "b", "c", "d", "e", "f", "g", "h", "i", "j", "k", "l", "m",
      "n", "o", "p", "q", "r", "s", "t", "u", "v", "w", "x", "y", "z">>
UpperChars == {UpperAlphabet[i] : i \in DOMAIN UpperAlphabet}
LowerChars == {LowerAlphabet[i] : i \in DOMAIN LowerAlphabet}
DigitChars == {"0", "1", "2", "3", "4", "5", "6", "7", "8", "9"}
SeparatorChars == {"-", " ", ".", "/"}
WhiteChars == {" ", "\t", "\n", "\r"}
ToLower(ch) ==
    IF ch \in UpperChars
    THEN LowerAlphabet[CHOOSE i \in DOMAIN UpperAlphabet : UpperAlphabet[i] = ch]
    ELSE ch

\* s.strip()
Strip(s) ==
    LET inked == {i \in DOMAIN s : s[i] \notin WhiteChars}
    IN  IF inked = {} THEN <<>>
        ELSE SubSeq(s, CHOOSE i \in inked : \A j \in inked : i <= j,
                       CHOOSE i \in inked : \A j \in inked : j <= i)
RECURSIVE CamelSplit(_)
\* re.sub(r"([a-z0-9])([A-Z])", r"\1_\2", s)
CamelSplit(s) ==
    IF Len(s) <= 1 THEN s
    ELSE LET last == s[Len(s)] IN
         CamelSplit(SubSeq(s, 1, Len(s) - 1)) \o
         (IF s[Len(s) - 1] \in LowerChars \cup DigitChars /\ last \in UpperChars
          THEN <<"_", last>> ELSE <<last>>)
\* the four replace() calls followed by lower()
SeparatorsAndLower(s) ==
    [i \in DOMAIN s |-> IF s[i] \in SeparatorChars THEN "_" ELSE ToLower(s[i])]
TokenChar(ch) == ch \in LowerChars \cup DigitChars \cup {"_"}
RECURSIVE CollapseUnderscores(_)
\* re.sub(r"_+", "_", s)
CollapseUnderscores(s) ==
    IF Len(s) <= 1 THEN s
    ELSE LET front == CollapseUnderscores(SubSeq(s, 1, Len(s) - 1)) IN
         IF s[Len(s)] = "_" /\ s[Len(s) - 1] = "_" THEN front ELSE Append(front, s[Len(s)])
\* s.strip("_")
StripUnderscores(s) ==
    LET inked == {i \in DOMAIN s : s[i] # "_"}
    IN  IF inked = {} THEN <<>>
        ELSE SubSeq(s, CHOOSE i \in inked : \A j \in inked : i <= j,
                       CHOOSE i \in inked : \A j \in inked : j <= i)

normalize_token(value) ==
    LET s == Strip(value) IN
    IF s = <<>> THEN <<>>
    ELSE StripUnderscores(CollapseUnderscores(
             SelectSeq(SeparatorsAndLower(CamelSplit(s)), TokenChar)))

UnknownName == <<"u", "n", "k", "n", "o", "w", "n">>
\* name is <<>> for None and <<chars>> for a string
normalize_tool_name(name) ==
    IF name = <<>> \/ name[1] = <<>> THEN UnknownName
    ELSE LET norm == normalize_token(name[1])
         IN  IF norm # <<>> THEN norm ELSE UnknownName

normalize_field_name(name) ==
    LET norm == normalize_token(name)
    IN  IF norm # <<>> THEN norm ELSE [i \in DOMAIN Strip(name) |-> ToLower(Strip(name)[i])]

(***************************************************************************)
(* scan_tool_formats.py: infer_direction_from_payload                      *)
(***************************************************************************)
output_keys ==
    {<<"s", "t", "d", "o", "u", "t">>,
     <<"s", "t", "d", "e", "r", "r">>,
     <<"o", "u", "t", "p", "u", "t">>,
     <<"r", "e", "s", "u", "l", "t">>,
     <<"e", "x", "i", "t", "c", "o", "d", "e">>,
     <<"e", "x", "i", "t", "_", "c", "o", "d", "e">>,
     <<"e", "x", "i", "t">>,
     <<"e", "x", "i", "t", "s", "t", "a", "t", "u", "s">>,
     <<"i", "s", "_", "e", "r", "r", "o", "r">>,
     <<"e", "r", "r", "o", "r">>}
input_keys ==
    {<<"c", "o", "m", "m", "a", "n", "d">>,
     <<"c", "o", "m", "m", "a", "n", "d", "s">>,
     <<"a", "r", "g", "s">>,
     <<"a", "r", "g", "u", "m", "e", "n", "t", "s">>,
     <<"i", "n", "p", "u", "t">>,
     <<"p", "a", "r", "a", "m", "e", "t", "e", "r", "s">>,
     <<"q", "u", "e", "r", "y">>,
     <<"p", "a", "t", "h">>,
     <<"p", "a", "t", "h", "s">>,
     <<"c", "w", "d">>,
     <<"d", "i", "r", "e", "c", "t", "o", "r", "y">>}

\* The keys a payload object may carry, as written in the session file.
RawKeys ==
    {<<"s", "t", "d", "o", "u", "t">>,
     <<"e", "x", "i", "t", "C", "o", "d", "e">>,
     <<"e", "x", "i", "t", "S", "t", "a", "t", "u", "s">>,
     <<"c", "o", "m", "m", "a", "n", "d">>,
     <<"f", "i", "l", "e", "P", "a", "t", "h">>,
     <<" ", "C", "W", "D", " ">>,
     <<"n", "o", "t", "e">>}

\* parsed_payload: a record [kind, keys]; kind is "dict" for a JSON object
\* and keys is then the set of its keys, any other kind is a JSON value that
\* is not an object and carries no keys.
PayloadKinds == {"dict", "list", "str", "int", "none"}
Payloads ==
    [kind : {"dict"}, keys : SUBSET RawKeys] \cup [kind : PayloadKinds \ {"dict"}, keys : {{}}]

NormalizedKeys(parsed_payload) == {normalize_field_name(k) : k \in parsed_payload.keys}

infer_direction_from_payloadInputFirst(parsed_payload) ==
    IF parsed_payload.kind # "dict" THEN "unknown"
    ELSE LET keys == NormalizedKeys(parsed_payload) IN
         IF keys \cap input_keys # {} THEN "input"
         ELSE IF keys \cap output_keys # {} THEN "output"
         ELSE "unknown"
infer_direction_from_payload(parsed_payload) ==
    IF parsed_payload.kind # "dict" THEN "unknown"
    ELSE LET keys == NormalizedKeys(parsed_payload) IN
         IF keys \cap output_keys # {} THEN "output"
         ELSE IF keys \cap input_keys # {} THEN "input"
         ELSE "unknown"

(***************************************************************************)
(* scan_tool_formats.py: split_json_array_items,                           *)
(* extract_raw_items_from_json and iter_json_items_with_raw                *)
(***************************************************************************)
MaxElements == 2

\* The elements a document's array may hold, each with its source text and
\* the type json.loads gives it.
ObjOne == [text |-> <<"{", "\"", "a", "\"", ":", "1", "}">>, kind |-> "dict"]
ObjTwo == [text |-> <<"{", "\"", "a", "\"", ":", "1", ",", "\"", "b", "\"", ":", "2", "}">>, kind |-> "dict"]
ObjNested == [text |-> <<"{", "\"", "a", "\"", ":", "[", "1", ",", "2", "]", "}">>, kind |-> "dict"]
ObjBracketString == [text |-> <<"{", "\"", "b", "\"", ":", "\"", "x", "]", "\"", "}">>, kind |-> "dict"]
ArrElem == [text |-> <<"[", "1", ",", "2", "]">>, kind |-> "list"]
StrElem == [text |-> <<"\"", "a", ",", "b", "\"">>, kind |-> "str"]
NumElem == [text |-> <<"3">>, kind |-> "int"]
Elements == {ObjOne, ObjTwo, ObjNested, ObjBracketString, ArrElem, StrElem, NumElem}

RECURSIVE Join(_, _)
Join(texts, sep) ==
    IF texts = <<>> THEN <<>>
    ELSE IF Len(texts) = 1 THEN texts[1]
    ELSE texts[1] \o sep \o Join(Tail(texts), sep)

MessagesPattern == <<"\"", "m", "e", "s", "s", "a", "g", "e", "s", "\"", ":", "[">>
DataPrefix == <<"{", "\"", "d", "a", "t", "a", "\"", ":">>
\* A document: the array of elems, written with sep between the elements,
\* either as the whole document ("bare"), under the key messages, or under
\* a key the scanner does not look for ("data").
Documents ==
    [elems : UNION {[1..k -> Elements] : k \in 0..MaxElements}, sep : {<<",">>, <<",", " ">>}, wrap : {"bare", "messages", "data"}]
ElementTexts(doc) == [i \in DOMAIN doc.elems |-> doc.elems[i].text]
ArrayText(doc) == <<"[">> \o Join(ElementTexts(doc), doc.sep) \o <<"]">>
DocumentText(doc) ==
    IF doc.wrap = "bare" THEN ArrayText(doc)
    ELSE IF doc.wrap = "messages"
         THEN <<"{">> \o SubSeq(MessagesPattern, 1, Len(MessagesPattern) - 1) \o ArrayText(doc) \o <<"}">>
    ELSE DataPrefix \o ArrayText(doc) \o <<"}">>

\* the loop variables of split_json_array_items; item_start is 0 for None,
\* done is set by the return inside the loop
SplitStart == [in_string |-> FALSE, escape |-> FALSE, depth |-> 0, item_start |-> 0, items |-> <<>>, done |-> FALSE]
\* text[item_start:i].strip() appended to items
CutItem(text, st, i) == Append(st.items, Strip(SubSeq(text, st.item_start, i - 1)))
\* one pass of the loop body at index i
SplitStep(text, i, st) ==
    LET ch == text[i] IN
    IF st.in_string
    THEN LET ss == StringStep(ch, st.escape)
         IN  [st EXCEPT !.in_string = ss[1], !.escape = ss[2]]
    ELSE IF ch = "\"" THEN [st EXCEPT !.in_string = TRUE]
    ELSE LET opened == IF ch = "[" THEN st.depth + 1 ELSE st.depth IN
         IF ch = "[" /\ opened = 1 THEN [st EXCEPT !.depth = opened]
         ELSE IF ch = "]" /\ opened = 1 /\ st.item_start # 0
              THEN [st EXCEPT !.items = CutItem(text, st, i), !.done = TRUE]
         ELSE LET depth == IF ch = "]" THEN opened - 1 ELSE opened IN
              IF depth # 1 THEN [st EXCEPT !.depth = depth]
              ELSE IF ch = ","
                   THEN IF st.item_start # 0
                        THEN [st EXCEPT !.depth = depth, !.items = CutItem(text, st, i), !.item_start = 0]
                        ELSE [st EXCEPT !.depth = depth]
              ELSE IF ch \notin WhiteChars /\ st.item_start = 0
                   THEN [st EXCEPT !.depth = depth, !.item_start = i]
              ELSE [st EXCEPT !.depth = depth]

RECURSIVE SplitLoop(_, _, _)
SplitLoop(text, i, st) ==
    IF i > Len(text) \/ st.done THEN st.items
    ELSE SplitLoop(text, i + 1, SplitStep(text, i, st))

\* start_index counts from 1
split_json_array_items(text, start_index) == SplitLoop(text, start_index, SplitStart)

\* the positions where the pattern "messages"\s*:\s*\[ matches; the
\* documents carry no white space around the colon
MessagesMatches(text) ==
    {p \in 1..Len(text) :
        /\ p + Len(MessagesPattern) - 1 <= Len(text)
        /\ SubSeq(text, p, p + Len(MessagesPattern) - 1) = MessagesPattern}
extract_raw_items_from_json(text) ==
    LET stripped == Strip(text) IN
    IF stripped # <<>> /\ stripped[1] = "["
    THEN split_json_array_items(text, CHOOSE i \in DOMAIN text : text[i] = "[" /\ \A j \in 1..(i - 1) : text[j] # "[")
    ELSE IF MessagesMatches(text) # {}
         THEN LET p == CHOOSE q \in MessagesMatches(text) : \A r \in MessagesMatches(text) : q <= r
              IN  split_json_array_items(text, p + Len(MessagesPattern) - 1)
    ELSE <<>>

\* json.loads(raw) gives a dict: of the fragments of these documents only
\* the complete text of an object element does
LoadsAsDict(raw) == \E e \in Elements : e.kind = "dict" /\ e.text = raw
\* the raw of every record iter_json_items_with_raw yields, in order
iter_json_items_with_raw(raw_text) == SelectSeq(extract_raw_items_from_json(raw_text), LoadsAsDict)

(***************************************************************************)
(* scan_tool_formats.py: extract_text_tool_blocks                          *)
(***************************************************************************)
MaxTextLines == 3

\* The lines a text is made of and the terminators between them.
PlainLine == <<"x">>
CallLine == <<"s", "h", " ", "{", "}">>
NameLine == <<"s", "h">>
JsonLine == <<"{", "}">>
TextLines == {PlainLine, CallLine, NameLine, JsonLine, <<>>}
Terminators == {<<"\n">>, <<"\r", "\n">>, <<"\r">>}
RECURSIVE JoinLines(_, _)
\* lines[1] terms[1] lines[2] ... ; one terminator between two lines
JoinLines(lines, terms) ==
    IF Len(lines) = 1 THEN lines[1]
    ELSE lines[1] \o terms[1] \o JoinLines(Tail(lines), Tail(terms))
ToolTexts ==
    UNION {{JoinLines(ls, ts) : ls \in [1..n -> TextLines], ts \in [1..(n - 1) -> Terminators]} : n \in 1..MaxTextLines}

RECURSIVE LinesFrom(_, _, _)
\* str.splitlines(): "\r\n" is one line boundary, and so is "\n" or "\r"
\* alone; the boundaries are not kept
LinesFrom(text, i, cur) ==
    IF i > Len(text) THEN IF cur = <<>> THEN <<>> ELSE <<cur>>
    ELSE IF text[i] = "\r" /\ i < Len(text) /\ text[i + 1] = "\n"
         THEN <<cur>> \o LinesFrom(text, i + 2, <<>>)
    ELSE IF text[i] \in {"\n", "\r"} THEN <<cur>> \o LinesFrom(text, i + 1, <<>>)
    ELSE LinesFrom(text, i + 1, Append(cur, text[i]))
splitlines(text) == LinesFrom(text, 1, <<>>)

RECURSIVE OffsetsFrom(_, _)
\* offsets.append(pos); pos += len(line) + 1
OffsetsFrom(lines, pos) ==
    IF lines = <<>> THEN <<>>
    ELSE <<pos>> \o OffsetsFrom(Tail(lines), pos + Len(Head(lines)) + 1)
LineOffsets(text, lines) == OffsetsFrom(lines, 0)

\* s.strip(chars)
StripChars(s, chars) ==
    LET inked == {i \in DOMAIN s : s[i] \notin chars}
    IN  IF inked = {} THEN <<>>
        ELSE SubSeq(s, CHOOSE i \in inked : \A j \in inked : i <= j,
                       CHOOSE i \in inked : \A j \in inked : j <= i)
\* s.find(ch), counted from 0, -1 where ch is not in s
Find(s, ch) ==
    LET hits == {i \in DOMAIN s : s[i] = ch}
    IN  IF hits = {} THEN -1 ELSE (CHOOSE i \in hits : \A j \in hits : i <= j) - 1
\* s.split()[0] for an s that holds a character other than white space
FirstToken(s) ==
    LET t == Strip(s)
        gaps == {i \in DOMAIN t : t[i] \in WhiteChars}
    IN  IF gaps = {} THEN t ELSE SubSeq(t, 1, (CHOOSE i \in gaps : \A j \in gaps : i <= j) - 1)

NameChars == UpperChars \cup LowerChars \cup DigitChars \cup {"_", ".", "/", "-"}
\* <<>> is None; the pattern is ^[A-Za-z][A-Za-z0-9_./-]{1,80}$
looks_like_tool_name(str) ==
    LET raw == Strip(StripChars(Strip(str), {"<", ">"})) IN
    IF raw = <<>> THEN <<>>
    ELSE IF /\ raw[1] \in UpperChars \cup LowerChars
            /\ Len(raw) - 1 \in 1..80
            /\ \A i \in 2..Len(raw) : raw[i] \in NameChars
         THEN <<raw>>
    ELSE <<>>

\* the append guarded by "if raw_json" and "if key not in seen"
Found(acc, tool_name, raw_json, shape) ==
    IF raw_json = <<>> \/ <<tool_name, raw_json[1]>> \in acc.seen THEN acc
    ELSE [seen |-> acc.seen \cup {<<tool_name, raw_json[1]>>},
          results |-> Append(acc.results, [tool_name |-> tool_name, raw_json |-> raw_json[1], shape |-> shape])]

\* the branch "if brace_index > 0" of the loop body
PrefixBranch(text, lines, offsets, idx, acc) ==
    LET line == lines[idx]
        stripped == Strip(line)
        prefix == StripChars(Strip(SubSeq(stripped, 1, Find(stripped, "{"))), {":"})
        tool_name == IF prefix # <<>> THEN looks_like_tool_name(FirstToken(prefix)) ELSE <<>>
    IN  IF tool_name = <<>> THEN acc
        ELSE LET full_index == offsets[idx] + Find(line, "{")
                 raw_json == extract_balanced_braces(text, full_index + 1)
                 shape == IF raw_json # <<>> /\ Find(raw_json[1], "\n") >= 0
                          THEN "text:line-prefix+json_block" ELSE "text:line-prefix+json"
             IN  Found(acc, tool_name[1], raw_json, shape)

\* the look-ahead "for j in range(idx + 1, len(lines))"
LookAhead(text, lines, offsets, idx, tool_name, acc) ==
    LET inked == {j \in (idx + 1)..Len(lines) : Strip(lines[j]) # <<>>} IN
    IF inked = {} THEN acc
    ELSE LET j == CHOOSE k \in inked : \A l \in inked : k <= l IN
         IF Find(lines[j], "{") < 0 THEN acc
         ELSE LET full_index == offsets[j] + Find(lines[j], "{")
              IN  Found(acc, tool_name, extract_balanced_braces(text, full_index + 1), "text:line+json_block")

\* one pass of "for idx, line in enumerate(lines)"; idx counts from 1
LineStep(text, lines, offsets, idx, acc) ==
    LET stripped == Strip(lines[idx]) IN
    IF stripped = <<>> THEN acc
    ELSE IF Find(stripped, "{") > 0 THEN PrefixBranch(text, lines, offsets, idx, acc)
    ELSE LET tool_name == looks_like_tool_name(stripped) IN
         IF tool_name # <<>> /\ idx < Len(lines)
         THEN LookAhead(text, lines, offsets, idx, tool_name[1], acc)
         ELSE acc

RECURSIVE LineLoop(_, _, _, _, _)
LineLoop(text, lines, offsets, idx, acc) ==
    IF idx > Len(lines) THEN acc.results
    ELSE LineLoop(text, lines, offsets, idx + 1, LineStep(text, lines, offsets, idx, acc))

extract_text_tool_blocks(text) ==
    IF Strip(text) = <<>> THEN <<>>
    ELSE LET lines == splitlines(text) IN
         IF lines = <<>> THEN <<>>
         ELSE LineLoop(text, lines, LineOffsets(text, lines), 1, [seen |-> {}, results |-> <<>>])

(***************************************************************************)
(* scan_tool_formats.py: the catalog built by add_tool_block               *)
(***************************************************************************)
MAX_EXAMPLE_CHARS == 800

\* The arguments of one add_tool_block call.  raw_event and raw_payload are
\* given by their lengths, raw_payload and tool_name are <<>> for None, and
\* parsed tells whether parsed_payload is not None.
BaseBlock ==
    [agent |-> "codex", tool_name |-> <<<<"s", "h">>>>, direction |-> "input",
     shape_signature |-> "object{cmd}", raw_event |-> MAX_EXAMPLE_CHARS,
     raw_payload |-> <<MAX_EXAMPLE_CHARS>>, parsed |-> TRUE,
     fields |-> {<<"c", "m", "d">>}]
AllBlocks ==
    [agent : {"codex", "claude"},
     tool_name : {<<>>, <<<<"s", "h">>>>, <<<<"S", "h">>>>},
     direction : {"input", "output"},
     shape_signature : {"object{cmd}", "string"},
     raw_event : {MAX_EXAMPLE_CHARS, MAX_EXAMPLE_CHARS + 1},
     raw_payload : {<<>>, <<MAX_EXAMPLE_CHARS>>, <<MAX_EXAMPLE_CHARS + 1>>},
     parsed : BOOLEAN,
     fields : {{<<"c", "m", "d">>}, {<<"C", "m", "d">>, <<>>}}]
\* the blocks fed to the catalog: the base block and every block that
\* differs from it in one argument
Blocks ==
    {b \in AllBlocks : Cardinality({f \in DOMAIN b : b[f] # BaseBlock[f]}) <= 1}

example_is_too_large_event_only(example) == example.raw_event > MAX_EXAMPLE_CHARS
example_is_too_large(example) ==
    IF example.raw_event > MAX_EXAMPLE_CHARS THEN TRUE
    ELSE IF example.raw_payload # <<>> /\ example.raw_payload[1] > MAX_EXAMPLE_CHARS THEN TRUE
    ELSE FALSE

AddExampleAlways(examples, example, max_examples) ==
    IF example_is_too_large(example) THEN examples ELSE Append(examples, example)
\* add_group_example and add_shape_example, on the examples list
AddExample(examples, example, max_examples) ==
    IF Len(examples) >= max_examples THEN examples
    ELSE IF example_is_too_large(example) THEN examples
    ELSE Append(examples, example)

NewGroupStats ==
    [count |-> 0, parse_success |-> 0, tool_name_variants |-> {},
     fields_seen |-> {}, field_variants |-> <<>>, examples |-> <<>>]
NewShapeStats == [count |-> 0, agents |-> {}, directions |-> <<>>, examples |-> <<>>]
EmptyCatalog == [groups |-> <<>>, shapes |-> <<>>]

GroupKey(b) == <<b.agent, normalize_tool_name(b.tool_name), b.shape_signature, b.direction>>

CountBlockByExamples(group) == [group EXCEPT !.count = Len(group.examples) + 1]
\* group.count += 1
CountBlock(group) == [group EXCEPT !.count = @ + 1]

\* record_fields
record_fields(group, fields) ==
    LET named == {f \in fields : f # <<>>}
        norms == {normalize_field_name(f) : f \in named}
        old(n) == IF n \in DOMAIN group.field_variants THEN group.field_variants[n] ELSE {}
    IN  [group EXCEPT
            !.fields_seen = @ \cup norms,
            !.field_variants =
                [n \in (DOMAIN @) \cup norms |->
                    old(n) \cup {f \in named : normalize_field_name(f) = n}]]

UpdateGroup(group, b, max_group) ==
    LET counted == CountBlock(group)
        parsed == [counted EXCEPT !.parse_success = IF b.parsed THEN @ + 1 ELSE @]
        named == [parsed EXCEPT !.tool_name_variants =
                     IF b.tool_name # <<>> /\ b.tool_name[1] # <<>>
                     THEN @ \cup {b.tool_name[1]} ELSE @]
        fielded == record_fields(named, b.fields)
    IN  [fielded EXCEPT !.examples = AddExample(@, b, max_group)]

UpdateShapeDirectionOnce(shape, b, max_shape) ==
    [shape EXCEPT
        !.count = @ + 1,
        !.agents = @ \cup {b.agent},
        !.directions = [d \in (DOMAIN @) \cup {b.direction} |-> IF d = b.direction THEN 1 ELSE @[d]],
        !.examples = AddExample(@, b, max_shape)]
UpdateShape(shape, b, max_shape) ==
    [shape EXCEPT
        !.count = @ + 1,
        !.agents = @ \cup {b.agent},
        !.directions =
            [d \in (DOMAIN @) \cup {b.direction} |->
                IF d = b.direction
                THEN (IF d \in DOMAIN @ THEN @[d] ELSE 0) + 1
                ELSE @[d]],
        !.examples = AddExample(@, b, max_shape)]

add_tool_block(cat, b, max_group, max_shape) ==
    LET key == GroupKey(b)
        group == IF key \in DOMAIN cat.groups THEN cat.groups[key] ELSE NewGroupStats
        shape == IF b.shape_signature \in DOMAIN cat.shapes
                 THEN cat.shapes[b.shape_signature] ELSE NewShapeStats
    IN  [groups |-> [k \in (DOMAIN cat.groups) \cup {key} |->
                        IF k = key THEN UpdateGroup(group, b, max_group) ELSE cat.groups[k]],
         shapes |-> [g \in (DOMAIN cat.shapes) \cup {b.shape_signature} |->
                        IF g = b.shape_signature THEN UpdateShape(shape, b, max_shape)
                        ELSE cat.shapes[g]]]

RECURSIVE CountSum(_, _)
\* sum(F[x].count for x in S)
CountSum(F, S) ==
    IF S = {} THEN 0
    ELSE LET x == CHOOSE y \in S : TRUE IN F[x].count + CountSum(F, S \ {x})
RECURSIVE ValueSum(_, _)
\* sum(F[x] for x in S)
ValueSum(F, S) ==
    IF S = {} THEN 0
    ELSE LET x == CHOOSE y \in S : TRUE IN F[x] + ValueSum(F, S \ {x})

\* the summary build_catalog computes from groups and shapes
build_catalog(cat) ==
    LET groups == cat.groups
        agents == {k[1] : k \in DOMAIN groups}
        directions == {k[4] : k \in DOMAIN groups}
    IN  [total_tool_blocks |-> CountSum(groups, DOMAIN groups),
         agent_counts |-> [a \in agents |-> CountSum(groups, {k \in DOMAIN groups : k[1] = a})],
         direction_counts |-> [d \in directions |-> CountSum(groups, {k \in DOMAIN groups : k[4] = d})],
         shape_counts |-> [g \in DOMAIN cat.shapes |-> cat.shapes[g].count]]

Calls(cat) == LET F == cat.shapes IN
    IF DOMAIN F = {} THEN 0
    ELSE LET RECURSIVE Sum(_)
             Sum(S) == IF S = {} THEN 0
                       ELSE LET x == CHOOSE y \in S : TRUE IN F[x].count + Sum(S \ {x})
         IN  Sum(DOMAIN F)

(***************************************************************************)
(* agent_watch.py: the schema fingerprints of session files                *)
(***************************************************************************)
\* What json.loads makes of a line, as far as the fingerprint reads it.  An
\* object is given by its "type" member (<<>> when it has none,
\* <<"str", v>> for a string v, <<"other">> for any other value) and by
\* its other keys.
BlankLine == [kind |-> "blank", type |-> <<>>, keys |-> {}]
MalformedLine == [kind |-> "malformed", type |-> <<>>, keys |-> {}]
ValueLine == [kind |-> "value", type |-> <<>>, keys |-> {}]
ObjectShapes ==
    {<<<<>>, {"id"}>>,
     <<<<"str", "">>, {}>>,
     <<<<"other">>, {}>>,
     <<<<"str", "message.user">>, {"role"}>>,
     <<<<"str", "message.user">>, {"role", "content"}>>,
     <<<<"str", "tool_call">>, {"id"}>>}
JsonObjects == {[kind |-> "object", type |-> sh[1], keys |-> sh[2]] : sh \in ObjectShapes}
JsonLines == {BlankLine, MalformedLine, ValueLine} \cup JsonObjects
JsonItems == {ValueLine} \cup JsonObjects
SeqsUpTo(S, n) == UNION {[1..k -> S] : k \in 0..n}

\* obj.keys()
ObjKeys(obj) == obj.keys \cup (IF obj.type # <<>> THEN {"type"} ELSE {})
\* t if isinstance(t, str) and t else "<missing-type>"
EventType(obj) ==
    IF obj.type # <<>> /\ obj.type[1] = "str" /\ obj.type[2] # ""
    THEN obj.type[2] ELSE "<missing-type>"

EmptyBuckets == [type_counts |-> <<>>, type_keys |-> <<>>]
AddBucketReplacing(b, event_type, obj) ==
    [type_counts |->
        [t \in (DOMAIN b.type_counts) \cup {event_type} |->
            IF t = event_type
            THEN (IF t \in DOMAIN b.type_counts THEN b.type_counts[t] ELSE 0) + 1
            ELSE b.type_counts[t]],
     type_keys |->
        [t \in (DOMAIN b.type_keys) \cup {event_type} |->
            IF t = event_type THEN ObjKeys(obj) ELSE b.type_keys[t]]]
\* type_counts[event_type] += 1; type_keys[event_type] |= obj.keys()
AddBucket(b, event_type, obj) ==
    [type_counts |->
        [t \in (DOMAIN b.type_counts) \cup {event_type} |->
            IF t = event_type
            THEN (IF t \in DOMAIN b.type_counts THEN b.type_counts[t] ELSE 0) + 1
            ELSE b.type_counts[t]],
     type_keys |->
        [t \in (DOMAIN b.type_keys) \cup {event_type} |->
            IF t = event_type
            THEN (IF t \in DOMAIN b.type_keys THEN b.type_keys[t] ELSE {}) \cup ObjKeys(obj)
            ELSE b.type_keys[t]]]

RECURSIVE TailLines(_, _, _)
\* the reading loop: blank lines are dropped, the list keeps its last
\* max_lines entries
TailLines(rest, lines, max_lines) ==
    IF rest = <<>> THEN lines
    ELSE IF Head(rest).kind = "blank" THEN TailLines(Tail(rest), lines, max_lines)
    ELSE LET appended == Append(lines, Head(rest))
         IN  TailLines(Tail(rest),
                       IF Len(appended) > max_lines THEN Tail(appended) ELSE appended,
                       max_lines)

JsonlStepErrorUncounted(acc, raw) ==
    LET counted == [acc EXCEPT !.parsed_lines = @ + 1] IN
    IF raw.kind # "object" THEN counted
    ELSE [counted EXCEPT !.buckets = AddBucket(@, EventType(raw), raw)]
\* one pass of "for raw in lines"
JsonlStep(acc, raw) ==
    LET counted == [acc EXCEPT !.parsed_lines = @ + 1] IN
    IF raw.kind = "malformed" THEN [counted EXCEPT !.parse_errors = @ + 1]
    ELSE IF raw.kind # "object" THEN counted
    ELSE [counted EXCEPT !.buckets = AddBucket(@, EventType(raw), raw)]

RECURSIVE JsonlFold(_, _)
JsonlFold(lines, acc) ==
    IF lines = <<>> THEN acc ELSE JsonlFold(Tail(lines), JsonlStep(acc, Head(lines)))

_jsonl_schema_fingerprint(file, max_lines) ==
    LET acc == JsonlFold(TailLines(file, <<>>, max_lines),
                         [buckets |-> EmptyBuckets, parsed_lines |-> 0, parse_errors |-> 0])
    IN  [type_counts |-> acc.buckets.type_counts, type_keys |-> acc.buckets.type_keys,
         parsed_lines |-> acc.parsed_lines, parse_errors |-> acc.parse_errors]

\* A Gemini session document: <<>> when json.loads fails, else <<root>>
\* with root a list of items, an object (its own keys, and a "messages"
\* member that is absent <<>>, a list <<"list", items>> or something else
\* <<"other">>) or any other JSON value.
GeminiRoots(n) ==
    [kind : {"value"}, keys : {{}}, messages : {<<>>}]
        \cup [kind : {"list"}, keys : {{}}, messages : {<<"list", m>> : m \in SeqsUpTo(JsonItems, n)}]
        \cup [kind : {"dict"}, keys : {{"sessionId"}, {"role"}},
              messages : {<<>>, <<"other">>} \cup {<<"list", m>> : m \in SeqsUpTo(JsonItems, n)}]
GeminiDocs(n) == {<<>>} \cup {<<r>> : r \in GeminiRoots(n)}

\* root.keys()
RootKeys(root) == root.keys \cup (IF root.messages # <<>> THEN {"messages"} ELSE {})

RECURSIVE GeminiFold(_, _)
\* the loop over messages[:max(0, max_messages)], already sliced
GeminiFold(items, acc) ==
    IF items = <<>> THEN acc
    ELSE LET item == Head(items) IN
         GeminiFold(Tail(items),
                    IF item.kind # "object" THEN acc
                    ELSE [acc EXCEPT !.buckets = AddBucket(@, EventType(item), item),
                                     !.parsed_messages = @ + 1])

\* items[: max(0, int(max_messages))]
FirstItems(items, max_messages) ==
    SubSeq(items, 1, IF max_messages < 0 THEN 0
                     ELSE IF max_messages > Len(items) THEN Len(items) ELSE max_messages)

_gemini_session_json_schema_fingerprint(doc, max_messages) ==
    IF doc = <<>>
    THEN [type_counts |-> <<>>, type_keys |-> <<>>, parsed_messages |-> 0, parse_errors |-> 1]
    ELSE LET root == doc[1]
             start == [buckets |-> EmptyBuckets, parsed_messages |-> 0]
             acc ==
                IF root.kind = "dict"
                THEN LET rooted == [start EXCEPT !.buckets =
                                       AddBucket(@, "root", [keys |-> RootKeys(root), type |-> <<>>])]
                     IN  IF root.messages # <<>> /\ root.messages[1] = "list"
                         THEN GeminiFold(FirstItems(root.messages[2], max_messages), rooted)
                         ELSE rooted
                ELSE IF root.kind = "list"
                THEN GeminiFold(FirstItems(root.messages[2], max_messages), start)
                ELSE start
         IN  [type_counts |-> acc.buckets.type_counts, type_keys |-> acc.buckets.type_keys,
              parsed_messages |-> acc.parsed_messages, parse_errors |-> 0]

\* An OpenCode session as the tree fingerprint finds it.  session is <<>>
\* when the session file cannot be parsed, else <<[kind, id]>> with kind
\* "dict" or "value" and id "absent", "bad" (not a non-empty string) or
\* "ok"; storage is "no_root", "no_msg_dir" or "ok"; messages are the
\* msg_*.json files in sorted order, each with its role ("absent" or
\* "user"), its id and its part directory (<<>> when absent, else <<the
\* part files in sorted order>>).  Part directories are drawn for the
\* messages that carry a role.
OcParts == [kind : {"unparsable", "value"}, type : {"absent"}] \cup [kind : {"dict"}, type : {"absent", "text"}]
OcPartDirs == {<<>>} \cup {<<l>> : l \in SeqsUpTo(OcParts, MaxPartFiles)}
OcMessages ==
    [kind : {"unparsable", "value"}, role : {"absent"}, id : {"absent"}, parts : {<<>>}]
        \cup {m \in [kind : {"dict"}, role : {"absent", "user"}, id : {"absent", "ok"}, parts : OcPartDirs] :
                (m.id = "absent" \/ m.role = "absent") => m.parts = <<>>}
OcSessions ==
    {<<>>, <<[kind |-> "value", id |-> "absent"]>>}
        \cup {<<[kind |-> "dict", id |-> i]>> : i \in {"absent", "bad", "ok"}}
OcTrees ==
    {t \in [session : OcSessions, storage : {"no_root", "no_msg_dir", "ok"},
            messages : SeqsUpTo(OcMessages, MaxMessages)] :
        /\ t.storage # "ok" => t.messages = <<>>
        /\ (t.session = <<>> \/ t.session[1].id # "ok") => (t.storage = "ok" /\ t.messages = <<>>)}

OcSessionKeys(ses) == {"title"} \cup (IF ses.id # "absent" THEN {"id"} ELSE {})
OcMessageKeys(m) ==
    {"sessionID"} \cup (IF m.role # "absent" THEN {"role"} ELSE {})
                  \cup (IF m.id # "absent" THEN {"id"} ELSE {})
OcPartKeys(part) == {"text"} \cup (IF part.type # "absent" THEN {"type"} ELSE {})
\* the first argument of AddBucket gives the bucket; these carry the keys
OcObject(keys) == [keys |-> keys, type |-> <<>>]

OcPartStepErrorsFree(part, acc) ==
    LET spent == [acc EXCEPT !.budget = @ - 1] IN
    IF part.kind = "unparsable" THEN [acc EXCEPT !.parse_errors = @ + 1]
    ELSE IF part.kind # "dict" THEN spent
    ELSE [spent EXCEPT
            !.buckets = AddBucket(@, IF part.type = "text" THEN "part.text" ELSE "part",
                                  OcObject(OcPartKeys(part))),
            !.part_files_parsed = @ + 1]
\* one pass of "for part_file in part_files", after the budget test
OcPartStep(part, acc) ==
    LET spent == [acc EXCEPT !.budget = @ - 1] IN
    IF part.kind = "unparsable" THEN [spent EXCEPT !.parse_errors = @ + 1]
    ELSE IF part.kind # "dict" THEN spent
    ELSE [spent EXCEPT
            !.buckets = AddBucket(@, IF part.type = "text" THEN "part.text" ELSE "part",
                                  OcObject(OcPartKeys(part))),
            !.part_files_parsed = @ + 1]

RECURSIVE OcPartLoop(_, _)
\* "for part_file in part_files"
OcPartLoop(parts, acc) ==
    IF parts = <<>> \/ acc.budget <= 0 THEN acc
    ELSE OcPartLoop(Tail(parts), OcPartStep(Head(parts), acc))

OcMessageStepAbsentPartsIsError(m, acc) ==
    IF m.kind = "unparsable" THEN [acc EXCEPT !.parse_errors = @ + 1]
    ELSE IF m.kind # "dict" THEN acc
    ELSE LET added == [acc EXCEPT
                         !.buckets = AddBucket(@, IF m.role = "user" THEN "message.user" ELSE "message",
                                               OcObject(OcMessageKeys(m))),
                         !.message_files_parsed = @ + 1]
         IN  IF m.id # "ok" \/ added.budget <= 0 THEN added
             ELSE IF m.parts = <<>> THEN [added EXCEPT !.parse_errors = @ + 1]
             ELSE OcPartLoop(m.parts[1], added)
\* one pass of "for msg_file in ..."
OcMessageStep(m, acc) ==
    IF m.kind = "unparsable" THEN [acc EXCEPT !.parse_errors = @ + 1]
    ELSE IF m.kind # "dict" THEN acc
    ELSE LET added == [acc EXCEPT
                         !.buckets = AddBucket(@, IF m.role = "user" THEN "message.user" ELSE "message",
                                               OcObject(OcMessageKeys(m))),
                         !.message_files_parsed = @ + 1]
         IN  IF m.id # "ok" \/ m.parts = <<>> \/ added.budget <= 0 THEN added
             ELSE OcPartLoop(m.parts[1], added)

RECURSIVE OcMessageLoop(_, _)
\* "for msg_file in sorted(msg_dir.glob("msg_*.json"))[:msg_budget]", sliced
OcMessageLoop(msgs, acc) ==
    IF msgs = <<>> THEN acc
    ELSE OcMessageLoop(Tail(msgs), OcMessageStep(Head(msgs), acc))

OcResult(acc, warning) ==
    [type_counts |-> acc.buckets.type_counts, type_keys |-> acc.buckets.type_keys,
     message_files_parsed |-> acc.message_files_parsed,
     part_files_parsed |-> acc.part_files_parsed,
     parse_errors |-> acc.parse_errors, warning |-> warning]

\* warning is "" for a result without that field
_opencode_storage_session_tree_schema_fingerprint(tree, max_messages, max_parts) ==
    LET start == [buckets |-> EmptyBuckets, message_files_parsed |-> 0, part_files_parsed |-> 0,
                  parse_errors |-> 0, budget |-> IF max_parts < 0 THEN 0 ELSE max_parts]
    IN  IF tree.session = <<>> THEN OcResult([start EXCEPT !.parse_errors = 1], "")
        ELSE LET ses == tree.session[1]
                 acc == IF ses.kind = "dict"
                        THEN [start EXCEPT !.buckets = AddBucket(@, "session", OcObject(OcSessionKeys(ses)))]
                        ELSE start
             IN  IF ses.kind # "dict" \/ ses.id # "ok" THEN OcResult(acc, "")
                 ELSE IF tree.storage = "no_root" THEN OcResult(acc, "storage_root_not_found")
                 ELSE IF tree.storage = "no_msg_dir" THEN OcResult(acc, "message_dir_not_found")
                 ELSE OcResult(OcMessageLoop(FirstItems(tree.messages, max_messages), acc), "")

(***************************************************************************)
(* agent_watch.py: _merge_type_keys                                        *)
(***************************************************************************)
\* What _merge_type_keys reads of a fingerprint: type_keys is <<>> when
\* the fingerprint has no dict under "type_keys", else <<m>> with m
\* giving each type <<"other">> (not a list) or <<"list", elements>>;
\* an element is <<"str", k>> or <<"other">> (not a string).
MergeEntries ==
    {<<"other">>, <<"list", {}>>, <<"list", {<<"str", "role">>}>>,
     <<"list", {<<"str", "role">>, <<"other">>}>>, <<"list", {<<"str", "id">>}>>}
MergeMaps ==
    UNION {[D -> MergeEntries] : D \in {{}, {"message.user"}}}
        \cup {[t \in {"message.user", "tool_call"} |->
                 IF t = "tool_call" THEN <<"list", {<<"str", "id">>}>> ELSE e] : e \in MergeEntries}
        \cup {[t \in {"tool_call"} |-> <<"list", {<<"str", "id">>}>>]}
MergeFingerprints == {[type_keys |-> <<>>]} \cup {[type_keys |-> <<m>>] : m \in MergeMaps}

StrKeys(entry) == {e[2] : e \in {x \in entry[2] : x[1] = "str"}}

MergeEntryReplacing(merged, t, entry) ==
    IF entry[1] # "list" THEN merged
    ELSE [u \in (DOMAIN merged) \cup {t} |-> IF u = t THEN StrKeys(entry) ELSE merged[u]]
\* one pass of "for t, keys in tk.items()"
MergeEntry(merged, t, entry) ==
    IF entry[1] # "list" THEN merged
    ELSE [u \in (DOMAIN merged) \cup {t} |->
            IF u = t THEN (IF t \in DOMAIN merged THEN merged[t] ELSE {}) \cup StrKeys(entry)
            ELSE merged[u]]

RECURSIVE MergeItems(_, _, _)
MergeItems(merged, tk, todo) ==
    IF todo = {} THEN merged
    ELSE LET t == CHOOSE u \in todo : TRUE
         IN  MergeItems(MergeEntry(merged, t, tk[t]), tk, todo \ {t})

RECURSIVE MergeLoop(_, _, _)
\* "for fp in fingerprints" from position i on; acc holds merged and the
\* fingerprints list as the loop leaves it
MergeLoop(fingerprints, i, merged) ==
    IF i > Len(fingerprints) THEN [merged |-> merged, fingerprints |-> fingerprints]
    ELSE LET tk == fingerprints[i].type_keys
         IN  IF tk = <<>> THEN MergeLoop(fingerprints, i + 1, merged)
             ELSE MergeLoop(fingerprints, i + 1, MergeItems(merged, tk[1], DOMAIN tk[1]))

_merge_type_keys(fingerprints) == MergeLoop(fingerprints, 1, <<>>)

(***************************************************************************)
(* agent_watch.py: _opencode_fixture_file_schema_fingerprint and           *)
(* _baseline_type_keys_for_agent                                           *)
(***************************************************************************)
\* A path is a sequence of pieces; a piece contains the substrings listed
\* for it here, and the last piece is the path's ending.
PieceHas(piece) ==
    IF piece = "schema_drift" THEN {"schema_drift"}
    ELSE IF piece = "fixtures/storage_v2/message/" THEN {"/storage_v2/message/"}
    ELSE IF piece = "fixtures/storage_v2/session/" THEN {"/storage_v2/session/"}
    ELSE IF piece = "fixtures/storage_legacy/session/" THEN {"/storage_legacy/session/"}
    ELSE IF piece = "fixtures/storage_v2/part/" THEN {"/storage_v2/part/"}
    ELSE {}
\* needle in p
Contains(p, needle) == \E i \in DOMAIN p : needle \in PieceHas(p[i])
\* p.endswith(ext)
EndsWith(p, ext) == p # <<>> /\ p[Len(p)] = ext

\* the "role" member of a document root is the string "user" when present
_opencode_fixture_file_schema_fingerprint(path, doc) ==
    IF doc = <<>> THEN [type_counts |-> <<>>, type_keys |-> <<>>, parse_errors |-> 1]
    ELSE IF doc[1].kind # "dict" THEN [type_counts |-> <<>>, type_keys |-> <<>>, parse_errors |-> 0]
    ELSE LET obj == doc[1]
             event_type ==
                IF Contains(path, "/storage_v2/session/") \/ Contains(path, "/storage_legacy/session/")
                THEN "session"
                ELSE IF Contains(path, "/storage_v2/message/")
                THEN (IF "role" \in RootKeys(obj) THEN "message.user" ELSE "message")
                ELSE IF Contains(path, "/storage_v2/part/") THEN "part"
                ELSE "opencode_json"
         IN  [type_counts |-> [t \in {event_type} |-> 1],
              type_keys |-> [t \in {event_type} |-> RootKeys(obj)],
              parse_errors |-> 0]

BaselineMaxLines == 5000

\* the fingerprint as _merge_type_keys reads it: lists of string keys
AsMergeInput(fp) ==
    [type_keys |-> <<[t \in DOMAIN fp.type_keys |->
                        <<"list", {<<"str", k>> : k \in fp.type_keys[t]}>>]>>]

\* An entry of baseline_paths: path is <<>> for a value that is not a
\* string and <<pieces>> for a string; file is <<>> when no file exists
\* at the path, else <<"jsonl", lines>> or <<"json", document>>.
FilteredKeepingDrift(baseline_paths) == SelectSeq(baseline_paths, LAMBDA e : e.path # <<>> /\ e.path[1] # <<>>)
\* [p for p in baseline_paths if isinstance(p, str) and p and "schema_drift" not in p]
Filtered(baseline_paths) ==
    SelectSeq(baseline_paths,
              LAMBDA e : e.path # <<>> /\ e.path[1] # <<>> /\ ~Contains(e.path[1], "schema_drift"))

JsonlAgents == {"codex", "claude", "copilot", "droid"}
\* the ending a producer's baseline files must have
BaselineEnding(agent) == IF agent \in JsonlAgents THEN ".jsonl" ELSE ".json"

\* the fingerprint appended for one filtered entry
BaselineFingerprint(agent, e) ==
    IF agent \in JsonlAgents
    THEN _jsonl_schema_fingerprint(e.file[2], BaselineMaxLines)
    ELSE IF agent = "gemini"
    THEN _gemini_session_json_schema_fingerprint(e.file[2], BaselineMaxLines)
    ELSE _opencode_fixture_file_schema_fingerprint(e.path[1], e.file[2])

_baseline_type_keys_for_agent(agent, baseline_paths) ==
    LET filtered == Filtered(baseline_paths)
        known == agent \in JsonlAgents \cup {"gemini", "opencode"}
        read == SelectSeq(filtered,
                          LAMBDA e : known /\ EndsWith(e.path[1], BaselineEnding(agent)) /\ e.file # <<>>)
        fps == [i \in DOMAIN read |-> AsMergeInput(BaselineFingerprint(agent, read[i]))]
    IN  _merge_type_keys(fps).merged

\* the "fixtures" list of weekly_details["baseline_schema"]
ReportFixtures(baseline_paths) ==
    SelectSeq(baseline_paths, LAMBDA e : e.path # <<>> /\ ~Contains(e.path[1], "schema_drift"))

(***************************************************************************)
(* agent_watch.py: _fetch_upstream                                         *)
(***************************************************************************)
\* A configured source with the reply the network gives it:
\*   "unconfigured" the repo, package, url or pattern is missing
\*   "unreachable"  URLError or JSONDecodeError
\*   "not_object"   the JSON fetched is not an object
\*   "no_version"   nothing in the reply has the form x.y.z
\*   "text"         a version string that is not of the form x.y.z
\*   "semver"       the version n
\* kind "not_a_dict" is an entry of the list that is not a dict.
SourceKinds == {"github_latest_release", "npm_latest", "url_regex_semver_max", "other_kind", "not_a_dict"}
Replies ==
    {[reply |-> r, n |-> 0] : r \in {"unconfigured", "unreachable", "not_object", "no_version", "text"}}
        \cup {[reply |-> "semver", n |-> n] : n \in 0..MaxVersion}
Sources ==
    {s \in [kind : SourceKinds, got : Replies] :
        /\ s.kind \in {"other_kind", "not_a_dict"} => s.got.reply = "unconfigured"
        \* a release tag or a page is text: when it holds no x.y.z there is no version
        /\ s.kind \in {"github_latest_release", "url_regex_semver_max"} => s.got.reply # "text"
        /\ s.kind = "url_regex_semver_max" => s.got.reply # "not_object"}

Failed(error) == [ok |-> FALSE, version |-> <<"none">>, error |-> error]
Fetched(version) == [ok |-> TRUE, version |-> version, error |-> ""]

\* kind == "github_latest_release"
FetchGithub(got) ==
    IF got.reply = "unconfigured" THEN Failed("missing_repo")
    ELSE IF got.reply = "unreachable" THEN Failed("fetch_failed")
    ELSE IF got.reply = "not_object" THEN Failed("invalid_response")
    ELSE IF got.reply = "semver" THEN Fetched(<<"semver", got.n>>)
    ELSE Fetched(<<"none">>)

\* kind == "npm_latest"
FetchNpm(got) ==
    IF got.reply = "unconfigured" THEN Failed("missing_package")
    ELSE IF got.reply = "unreachable" THEN Failed("fetch_failed")
    ELSE IF got.reply = "semver" THEN Fetched(<<"semver", got.n>>)
    ELSE IF got.reply = "text" THEN Fetched(<<"text">>)
    ELSE Fetched(<<"none">>)

\* kind == "url_regex_semver_max"
FetchUrlRegex(got) ==
    IF got.reply = "unconfigured" THEN Failed("missing_url_or_pattern")
    ELSE IF got.reply = "unreachable" THEN Failed("fetch_failed")
    ELSE IF got.reply = "semver" THEN Fetched(<<"semver", got.n>>)
    ELSE Failed("no_versions_found")

_fetch_upstream(source) ==
    IF source.kind = "github_latest_release" THEN FetchGithub(source.got)
    ELSE IF source.kind = "npm_latest" THEN FetchNpm(source.got)
    ELSE IF source.kind = "url_regex_semver_max" THEN FetchUrlRegex(source.got)
    ELSE Failed("unsupported_source_kind")

(***************************************************************************)
(* agent_watch.py: _run_cmd and _run_probe_script                          *)
(***************************************************************************)
\* What running a command does: it exits with a code and a standard
\* output, or it runs into the timeout, or its binary does not exist.
\* The output is "empty", "garbage" (not JSON), "value" (JSON, not an
\* object), "object" (an object without ok = true) or "object_ok".
Outputs == {"empty", "garbage", "value", "object", "object_ok"}
Runs ==
    [how : {"exit"}, code : {0, 1}, out : Outputs]
        \cup [how : {"timeout", "not_found"}, code : {0}, out : {"empty"}]

_run_cmd_timeout_passes(run) ==
    IF run.how = "not_found" THEN [rc |-> 127, stdout |-> "empty"]
    ELSE IF run.how = "timeout" THEN [rc |-> 0, stdout |-> "empty"]
    ELSE [rc |-> run.code, stdout |-> run.out]
\* the exit code and the standard output _run_cmd returns
_run_cmd(run) ==
    IF run.how = "not_found" THEN [rc |-> 127, stdout |-> "empty"]
    ELSE IF run.how = "timeout" THEN [rc |-> 124, stdout |-> "empty"]
    ELSE [rc |-> run.code, stdout |-> run.out]

ParseKinds ==
    {"claude_usage_json", "codex_status_json", "claude_status_json",
     "droid_schema_report", "capture_latest_sessions", "none"}
StdoutParseKinds == {"claude_usage_json", "codex_status_json", "claude_status_json"}
\* A configured probe: entry is "dict" or "other"; argv_ok tells whether
\* argv is a list of strings; report is what the droid probe left in
\* schema_report.json.
Probes ==
    {p \in [entry : {"dict", "other"}, argv_ok : BOOLEAN, parse : ParseKinds,
            run : Runs, report : {"empty", "object"}] :
        /\ p.entry = "other" => (~p.argv_ok /\ p.parse = "none")
        /\ ~p.argv_ok => (p.parse = "none" /\ p.run = [how |-> "exit", code |-> 0, out |-> "empty"])
        /\ p.parse \notin StdoutParseKinds => p.run.out = "empty"
        /\ p.parse # "droid_schema_report" => p.report = "empty"}

\* parsed: "none" for None, else the kind of JSON value read
Parsed(p, stdout) ==
    IF p.parse \in StdoutParseKinds
    THEN (IF stdout \in {"empty", "garbage"} THEN "none" ELSE stdout)
    ELSE IF p.parse = "droid_schema_report" THEN (IF p.report = "object" THEN "object" ELSE "none")
    ELSE IF p.parse = "capture_latest_sessions" THEN "object"
    ELSE "none"

\* exit_code is <<>> for the result that has none
_run_probe_script(p) ==
    IF ~p.argv_ok THEN [ok |-> FALSE, exit_code |-> <<>>, parsed |-> "none", error |-> "invalid_probe_argv"]
    ELSE LET ran == _run_cmd(p.run)
             parsed == Parsed(p, ran.stdout)
             ok0 == ran.rc = 0
             ok1 == IF p.parse \in {"claude_usage_json", "claude_status_json"}
                    THEN ok0 /\ parsed = "object_ok"
                    ELSE IF p.parse = "codex_status_json"
                    THEN ok0 /\ parsed \in {"object", "object_ok"}
                    ELSE ok0
         IN  [ok |-> ok1, exit_code |-> <<ran.rc>>, parsed |-> parsed, error |-> ""]

(***************************************************************************)
(* agent_watch.py: main(), the loop body as one step, and the output       *)
(***************************************************************************)
\* the signals the version block of the loop body derives
VersionSignalsOf(verified_semver, installed, fetched, notes_text) ==
    LET used == FirstOk(fetched)
        upstream == IF used = 0 THEN <<"none">> ELSE fetched[used].version
        text == IF used = 0 THEN {} ELSE notes_text
        cmp_uv == IF verified_semver # <<"none">> /\ upstream # <<"none">>
                  THEN _compare_semver(upstream, verified_semver) ELSE <<>>
        cmp_iv == IF verified_semver # <<"none">> /\ installed # <<"none">>
                  THEN _compare_semver(installed, verified_semver) ELSE <<>>
    IN  [upstream_newer |-> cmp_uv = <<1>>,
         installed_newer |-> cmp_iv = <<1>>,
         monitoring_failed |-> (Len(fetched) > 0 /\ upstream = <<"none">>),
         schema_hits |-> _keyword_hits(text, schema_keywords),
         usage_hits |-> _keyword_hits(text, usage_keywords)]
VersionSignals ==
    {VersionSignalsOf(v, i, f, n) :
        v \in {<<"none">>} \cup {<<"semver", k>> : k \in 0..MaxVersion},
        i \in VersionVals, f \in SourceLists, n \in SUBSET (schema_keywords \cup usage_keywords)}

\* schema_matches_baseline after the weekly schema block: None when no diff
\* was computed
SchemaOutcomes ==
    {None} \cup {SchemaMatches(_schema_diff(o, b)) :
                    o \in TypeKeyMaps(Types, WatchKeySet),
                    b \in {m \in TypeKeyMaps(Types, WatchKeySet) : DOMAIN m # {}}}

\* "probe_failed = any(not pr.get("ok") for pr in probe_results)" under
\* "if probe_results"
AnyProbeFailed(probe_results) ==
    DOMAIN probe_results # {} /\ \E l \in DOMAIN probe_results : ~probe_results[l].ok

\* the claude_status probe has a result whose "parsed" reports degradation
StatusDegraded(probe_results) ==
    LET status == FirstWithLabel(probe_results, "claude_status")
    IN  status # <<>> /\ status[1].parsed = "degraded"
\* the claude_usage_probe probe has a result and it is not ok
UsageFailed(probe_results) ==
    LET usage == FirstWithLabel(probe_results, "claude_usage_probe")
    IN  usage # <<>> /\ ~usage[1].ok

ActionableInEveryMode(m, sev) == sev # "none"
\* actionable
Actionable(m, sev) ==
    IF m = "weekly" THEN sev # "none" ELSE sev \in {"medium", "high"}

\* for line in summary_lines[:40]
SummaryMax == 40
Printed(lines) == SubSeq(lines, 1, IF Len(lines) < SummaryMax THEN Len(lines) ELSE SummaryMax)

\* cfg["agents"]: distinct names in some order, each with its cadence
AgentConfigs ==
    LET entries == [name : AgentNames, daily : BOOLEAN, weekly : BOOLEAN]
    IN  {l \in SeqsUpTo(entries, Cardinality(AgentNames)) :
            \A i, j \in DOMAIN l : l[i].name = l[j].name => i = j}

(***************************************************************************)
(* purge_droid_test_sessions.py and purge_no_prompt_sessions.py            *)
(***************************************************************************)
\* --confirm: the text <<"delete", n>> stands for "delete n sessions",
\* <<"other">> for any other text, <<"empty">> for the default ""; padded
\* tells whether white space surrounds the text
Confirms ==
    [text : {<<"delete", n>> : n \in 0..MaxFiles} \cup {<<"other">>}, padded : BOOLEAN]
        \cup [text : {<<"empty">>}, padded : {FALSE}]
\* args.confirm.strip()
StripConfirm(confirm) == [confirm EXCEPT !.padded = FALSE]
\* f"delete {n} sessions"
Expected(n) == [text |-> <<"delete", n>>, padded |-> FALSE]
\* move: --quarantine (droid), absence of --hard-delete (no_prompt)
PurgeArgs == [execute : BOOLEAN, confirm : Confirms, move : BOOLEAN, include_blank : BOOLEAN]

\* A *.jsonl file under the root: whether it can be read, whether its
\* content holds the marker, whether its path holds the encoded cwd name.
DroidFiles == [readable : BOOLEAN, marker : BOOLEAN, cwd : BOOLEAN]
\* marker in _read_text(path): an unreadable file reads as ""
_marker_in_file(file) == file.readable /\ file.marker
\* _collect_candidates (droid): the files with a marker hit, with their
\* second signal
droid_collect_candidates(files) ==
    [i \in {j \in DOMAIN files : _marker_in_file(files[j])} |->
        [marker_hit |-> TRUE, cwd_signal |-> files[i].cwd]]
\* buckets["both"] of _confusion_matrix, in the order of the candidates
BothBucket(files) ==
    LET c == droid_collect_candidates(files)
    IN  {i \in DOMAIN c : c[i].marker_hit /\ c[i].cwd_signal}

\* A row of session_meta with the file its path names: the title ("No
\* prompt", "" for blank or NULL, or "other"), whether the source is one of
\* the allowed sources, whether the file exists, lies under the allowed
\* root and can be read, and whether its lines hold an assistant message
\* in the format of the source.
IndexRows ==
    {r \in [title : {"No prompt", "", "other"}, known : BOOLEAN, exists : BOOLEAN,
            under_root : BOOLEAN, readable : BOOLEAN, assistant : BOOLEAN] :
        /\ ~r.known => r.exists
        /\ ~r.exists => r.under_root
        /\ (~r.known \/ ~r.exists \/ ~r.under_root) => (r.readable /\ ~r.assistant)
        /\ r.title = "other" => (r.known /\ r.exists /\ r.under_root /\ r.readable /\ ~r.assistant)}
\* the WHERE clause of _query_no_prompt_rows
TitleMatches(title, include_blank) == title = "No prompt" \/ (include_blank /\ title = "")
\* _has_any_assistant_codex / _has_any_assistant_claude over _read_jsonl:
\* a file that cannot be opened yields no line
_has_any_assistant(row) == row.readable /\ row.assistant
\* _collect_candidates (no_prompt) over the rows the query returns
no_prompt_collect_candidates(rows, include_blank) ==
    [i \in {j \in DOMAIN rows : TitleMatches(rows[j].title, include_blank) /\ rows[j].known} |->
        IF ~rows[i].exists THEN [root_ok |-> FALSE, no_assistant |-> FALSE, exists |-> FALSE]
        ELSE IF ~rows[i].under_root THEN [root_ok |-> FALSE, no_assistant |-> FALSE, exists |-> TRUE]
        ELSE [root_ok |-> TRUE, no_assistant |-> ~_has_any_assistant(rows[i]), exists |-> TRUE]]
\* eligible = [c for c in candidates if c.exists and c.root_ok and c.no_assistant]
Eligible(rows, include_blank) ==
    LET c == no_prompt_collect_candidates(rows, include_blank)
    IN  {i \in DOMAIN c : c[i].exists /\ c[i].root_ok /\ c[i].no_assistant}

RECURSIVE InOrder(_)
\* the members of a set of positions, ascending
InOrder(positions) ==
    IF positions = {} THEN <<>>
    ELSE LET least == CHOOSE i \in positions : \A j \in positions : i <= j
         IN  <<least>> \o InOrder(positions \ {least})

\* args.confirm.strip() == expected
Confirmed(confirm, n) == StripConfirm(confirm) = Expected(n)

(***************************************************************************)
(* State.                                                                  *)
(***************************************************************************)
VARIABLES
    \* SpecDiff
    fpA,        \* first type->keys map
    fpB,        \* second type->keys map
    diffAB,     \* <<>> or <<_schema_diff(observed = fpA, baseline = fpB)>>
    diffBA,     \* <<>> or <<_schema_diff(observed = fpB, baseline = fpA)>>
    \* Spec: main(), one agent of the "for agent_name, agent_cfg" loop
    pc,                 \* position in the loop body
    mode,               \* args.mode
    agent_name,
    upstream_newer_than_verified,
    installed_newer_than_verified,
    monitoring_failed,
    schema_hits,
    usage_hits,
    local_type_keys,    \* <<>> or <<local_fp["type_keys"]>>
    baseline_type_keys,
    schema_diff,        \* <<>> (None) or <<the diff>>
    schema_matches_baseline,    \* None, "True" or "False"
    probe_failed,
    probe_failed_but_upstream_degraded,
    picked,             \* <<>> or the pair _pick_severity returned
    severity,
    recommendation,
    results             \* <<>> or <<[severity, recommendation]>> of results[agent_name]

VARIABLES
    \* SpecBraces: one call of extract_balanced_braces
    brText,     \* the text, a sequence of characters
    brStart,    \* index of the first character of the scan (counted from 1)
    brDone,     \* whether the call has returned
    brResult    \* <<>> (None) or <<the substring returned>>

VARIABLES
    \* SpecCatalog: two scans of the same tool fragments, in any two orders
    catA,       \* groups and shapes of the first scan
    catB,       \* groups and shapes of the second scan
    pendingB,   \* bag of the fragments the second scan has still to read
    max_examples_per_group,
    max_examples_per_shape,
    lastCall    \* <<>> or <<scan, fragment>> of the latest add_tool_block call

VARIABLES
    \* SpecFingerprint: one session file, JSONL or Gemini JSON
    jlLines,    \* the lines of the JSONL file
    jlMax,      \* max_lines
    jlFp,       \* <<>> or <<_jsonl_schema_fingerprint(jlLines, jlMax)>>
    jlOther,    \* <<how, lines>>: the scanned lines reordered or one of them read again
    jlOtherFp,  \* <<>> or <<the fingerprint of jlOther's lines>>
    gmDoc,      \* the Gemini session document
    gmMax,      \* max_messages
    gmFp,       \* <<>> or <<_gemini_session_json_schema_fingerprint(gmDoc, gmMax)>>
    fileKind,   \* "idle", "jsonl", "gemini" or "opencode": the file at hand
    ocTree,     \* the OpenCode session file and the records linked to it
    ocMaxMessages,  \* max_messages
    ocMaxParts,     \* max_parts
    ocFp,       \* <<>> or <<_opencode_storage_session_tree_schema_fingerprint(...)>>
    \* SpecRun: main() from the first agent to its return
    runPc,          \* "idle", "loop", "report", "output", "return" or "exit"
    runAgents,      \* cfg["agents"] in order: name and cadence of each
    runIdx,         \* position of the loop in runAgents
    runResults,     \* results: agent name -> [severity, recommendation]
    any_actionable,
    summary_lines,  \* one entry per line: the agent and its severity
    lastScan,       \* <<>> or <<what the last loop body saw and derived>>
    report_json,    \* <<>> or <<the results written to report.json>>
    printed,        \* <<>> or <<the summary lines printed>>
    exit_code,      \* <<>> or <<main()'s return value>>
    \* SpecPurge: one run of a purge script
    purgeScript,    \* "idle", "droid" or "no_prompt"
    purgeArgs,      \* the command line: execute, confirm, move, include_blank
    purgeGuard,     \* "ok", or why the run stops before it looks at files
    purgeFiles,     \* the session files (droid) or index rows (no_prompt)
    purgePc,        \* "idle", "scan", "loop" or "exit"
    to_delete,      \* the eligible files, as positions in purgeFiles
    purgeAt,        \* position of the loop in to_delete
    onDisk,         \* per file: "present", "deleted" or "moved"
    manifest,       \* <<>> or <<mode and count written to manifest.json>>
    purgeRc         \* <<>>, <<return value>> or <<"SystemExit">>

VARIABLES
    \* SpecMerge: fingerprints produced per file, delivered in any order
    mgProduced,   \* the fingerprint of each producer
    mgQueue,      \* the producers in the order their fingerprints arrived
    mgMerged      \* <<>> or <<_merge_type_keys(the delivered fingerprints)>>

VARIABLES
    \* SpecBaseline: the baseline of one producer from its evidence files
    blAgent,      \* agent_name
    blPaths,      \* baseline_paths, each entry with the file found at it
    blTypeKeys,   \* <<>> or <<_baseline_type_keys_for_agent(...)>>
    blReport      \* <<>> or <<weekly_details["baseline_schema"]>>

VARIABLES
    \* SpecUpstream: the loop of main() over one producer's upstream sources
    upstream_sources,       \* the configured sources, each with the reply it would get
    upPc,                   \* "idle", "loop", "after" or "done"
    srcIdx,                 \* position of the loop in upstream_sources
    fetchLog,               \* the positions _fetch_upstream was called for, in call order
    upstream_found,         \* upstream: <<"none">> or the version of the source used
    upstream_source_used,   \* <<>> or <<the result of the source used>>
    upstream_errors,        \* the results appended to upstream_errors
    up_monitoring_failed    \* monitoring_failed as set after the loop

VARIABLES
    \* SpecProbe: the weekly probes of one producer, run one after the other
    probes_cfg,     \* the configured probes, each with what its command does
    prPc,           \* "idle", "loop" or "done"
    prIdx,          \* position of the loop in probes_cfg
    prResults,      \* probe_results: the results of _run_probe_script, in order
    any_probe_failed  \* probe_failed as set after the loop

VARIABLES
    \* SpecSplit: one JSON document read by iter_json_items_with_raw
    spDoc,          \* the document
    spDone,         \* whether the document was read
    raw_items,      \* what extract_raw_items_from_json returned
    spYielded       \* the raw text of the yielded records, in order

VARIABLES
    \* SpecTextBlocks: one call of extract_text_tool_blocks
    tbText,         \* text
    tbDone,         \* whether the call was made
    tbResults       \* the list it returned

VARIABLES
    \* SpecDirection: one call of infer_direction_from_payload
    dirPayload,     \* parsed_payload
    dirResult       \* <<>> before the call, <<direction>> after it

diffVars == <<fpA, fpB, diffAB, diffBA>>
probeRunVars == <<probes_cfg, prPc, prIdx, prResults, any_probe_failed>>
upstreamVars == <<upstream_sources, upPc, srcIdx, fetchLog, upstream_found, upstream_source_used, upstream_errors, up_monitoring_failed>>
baselineVars == <<blAgent, blPaths, blTypeKeys, blReport>>
mergeVars == <<mgProduced, mgQueue, mgMerged>>
jsonlVars == <<jlLines, jlMax, jlFp, jlOther, jlOtherFp>>
geminiVars == <<gmDoc, gmMax, gmFp>>
opencodeVars == <<ocTree, ocMaxMessages, ocMaxParts, ocFp>>
fingerprintVars == <<fileKind, jsonlVars, geminiVars, opencodeVars>>
bracesVars == <<brText, brStart, brDone, brResult>>
catalogVars == <<catA, catB, pendingB, max_examples_per_group, max_examples_per_shape, lastCall>>
partVars == <<bracesVars, catalogVars, fingerprintVars, mergeVars, baselineVars, upstreamVars, probeRunVars>>
runVars == <<runPc, runAgents, runIdx, runResults, any_actionable, summary_lines, lastScan, report_json, printed, exit_code>>
purgeVars == <<purgeScript, purgeArgs, purgeGuard, purgeFiles, purgePc, to_delete, purgeAt, onDisk, manifest, purgeRc>>
directionVars == <<dirPayload, dirResult>>
splitVars == <<spDoc, spDone, raw_items, spYielded>>
textBlockVars == <<tbText, tbDone, tbResults>>
scanVars == <<directionVars, splitVars, textBlockVars>>
scriptVars == <<runVars, purgeVars, scanVars>>
besideRunVars == <<purgeVars, scanVars>>
besidePurgeVars == <<runVars, scanVars>>
besideScanVars == <<runVars, purgeVars>>
toolVars == <<partVars, scriptVars>>
signalVars == <<upstream_newer_than_verified, installed_newer_than_verified,
                monitoring_failed, schema_hits, usage_hits>>
schemaVars == <<local_type_keys, baseline_type_keys, schema_diff, schema_matches_baseline>>
probeVars == <<probe_failed, probe_failed_but_upstream_degraded>>
decisionVars == <<picked, severity, recommendation, results>>
mainVars == <<pc, mode, agent_name, signalVars, schemaVars, probeVars, decisionVars>>
vars == <<diffVars, mainVars, toolVars>>

\* the values main()'s variables have where the loop body has not assigned
\* them yet
MainIdle ==
    /\ upstream_newer_than_verified = FALSE
    /\ installed_newer_than_verified = FALSE
    /\ monitoring_failed = FALSE
    /\ schema_hits = {}
    /\ usage_hits = {}
    /\ local_type_keys = <<>>
    /\ baseline_type_keys = <<>>
    /\ schema_diff = <<>>
    /\ schema_matches_baseline = None
    /\ probe_failed = FALSE
    /\ probe_failed_but_upstream_degraded = FALSE
    /\ picked = <<>>
    /\ severity = None
    /\ recommendation = None
    /\ results = <<>>

DiffIdle ==
    /\ fpA = <<>>
    /\ fpB = <<>>
    /\ diffAB = <<>>
    /\ diffBA = <<>>

BracesIdle ==
    /\ brText = <<>>
    /\ brStart = 0
    /\ brDone = FALSE
    /\ brResult = <<>>

CatalogIdle ==
    /\ catA = <<>>
    /\ catB = <<>>
    /\ pendingB = <<>>
    /\ max_examples_per_group = 0
    /\ max_examples_per_shape = 0
    /\ lastCall = <<>>

JsonlIdle ==
    /\ jlLines = <<>>
    /\ jlMax = 0
    /\ jlFp = <<>>
    /\ jlOther = <<>>
    /\ jlOtherFp = <<>>

GeminiIdle ==
    /\ gmDoc = <<>>
    /\ gmMax = 0
    /\ gmFp = <<>>

OpencodeIdle ==
    /\ ocTree = <<>>
    /\ ocMaxMessages = 0
    /\ ocMaxParts = 0
    /\ ocFp = <<>>

FingerprintIdle ==
    /\ fileKind = "idle"
    /\ JsonlIdle
    /\ GeminiIdle
    /\ OpencodeIdle

MergeIdle ==
    /\ mgProduced = <<>>
    /\ mgQueue = <<>>
    /\ mgMerged = <<>>

BaselineIdle ==
    /\ blAgent = ""
    /\ blPaths = <<>>
    /\ blTypeKeys = <<>>
    /\ blReport = <<>>

UpstreamIdle ==
    /\ upstream_sources = <<>>
    /\ upPc = "idle"
    /\ srcIdx = 0
    /\ fetchLog = <<>>
    /\ upstream_found = <<"none">>
    /\ upstream_source_used = <<>>
    /\ upstream_errors = <<>>
    /\ up_monitoring_failed = FALSE

ProbeRunIdle ==
    /\ probes_cfg = <<>>
    /\ prPc = "idle"
    /\ prIdx = 0
    /\ prResults = <<>>
    /\ any_probe_failed = FALSE

PartIdle ==
    /\ BracesIdle
    /\ CatalogIdle
    /\ FingerprintIdle
    /\ MergeIdle
    /\ BaselineIdle
    /\ UpstreamIdle
    /\ ProbeRunIdle

RunIdle ==
    /\ runPc = "idle"
    /\ runAgents = <<>>
    /\ runIdx = 0
    /\ runResults = <<>>
    /\ any_actionable = FALSE
    /\ summary_lines = <<>>
    /\ lastScan = <<>>
    /\ report_json = <<>>
    /\ printed = <<>>
    /\ exit_code = <<>>

PurgeIdle ==
    /\ purgeScript = "idle"
    /\ purgeArgs = <<>>
    /\ purgeGuard = "ok"
    /\ purgeFiles = <<>>
    /\ purgePc = "idle"
    /\ to_delete = <<>>
    /\ purgeAt = 0
    /\ onDisk = <<>>
    /\ manifest = <<>>
    /\ purgeRc = <<>>

DirectionIdle ==
    /\ dirPayload = [kind |-> "none", keys |-> {}]
    /\ dirResult = <<>>

SplitIdle ==
    /\ spDoc = [elems |-> <<>>, sep |-> <<",">>, wrap |-> "bare"]
    /\ spDone = FALSE
    /\ raw_items = <<>>
    /\ spYielded = <<>>

TextBlockIdle ==
    /\ tbText = <<>>
    /\ tbDone = FALSE
    /\ tbResults = <<>>

ScanIdle ==
    /\ DirectionIdle
    /\ SplitIdle
    /\ TextBlockIdle

ScriptIdle ==
    /\ RunIdle
    /\ PurgeIdle
    /\ ScanIdle

\* main()'s loop-body variables where no loop body runs
MainParked ==
    /\ pc = "idle"
    /\ mode = "daily"
    /\ agent_name = "codex"
    /\ MainIdle

ToolIdle ==
    /\ PartIdle
    /\ ScriptIdle

(***************************************************************************)
(* SpecDiff.                                                               *)
(***************************************************************************)
DiffInit ==
    /\ fpA \in TypeKeyMaps(Types, Keys)
    /\ fpB \in TypeKeyMaps(Types, Keys)
    /\ diffAB = <<>>
    /\ diffBA = <<>>
    /\ pc = "idle"
    /\ mode = "daily"
    /\ agent_name = "codex"
    /\ MainIdle
    /\ ToolIdle

\* _schema_diff(observed_type_keys = fpA, baseline_type_keys = fpB)
DiffObservedA ==
    /\ pc = "idle"
    /\ diffAB = <<>>
    /\ diffAB' = <<_schema_diff(fpA, fpB)>>
    /\ UNCHANGED <<fpA, fpB, diffBA, mainVars, toolVars>>

\* _schema_diff(observed_type_keys = fpB, baseline_type_keys = fpA)
DiffObservedB ==
    /\ pc = "idle"
    /\ diffAB # <<>>
    /\ diffBA = <<>>
    /\ diffBA' = <<_schema_diff(fpB, fpA)>>
    /\ UNCHANGED <<fpA, fpB, diffAB, mainVars, toolVars>>

DiffNext == DiffObservedA \/ DiffObservedB

SpecDiff == DiffInit /\ [][DiffNext]_vars

(***************************************************************************)
(* Spec: the body of main()'s loop for one agent.                          *)
(***************************************************************************)
Init ==
    /\ DiffIdle
    /\ pc = "versions"
    /\ mode \in Modes
    /\ agent_name \in AgentNames
    /\ MainIdle
    /\ ToolIdle

\* the cadence check: an agent not scheduled for this mode is skipped
\* ("continue") and gets no entry in results
SkipAgent ==
    /\ pc = "versions"
    /\ pc' = "done"
    /\ UNCHANGED <<diffVars, toolVars, mode, agent_name, signalVars, schemaVars, probeVars,
                   decisionVars>>

\* verified / installed versions, the upstream fallback loop, the keyword
\* hits, the two "newer than verified" comparisons and monitoring_failed
ResolveVersions ==
    /\ pc = "versions"
    /\ \E verified_semver \in {<<"none">>} \cup {<<"semver", n>> : n \in 0..MaxVersion},
          installed \in VersionVals,
          fetched \in SourceLists,
          notes_text \in SUBSET (schema_keywords \cup usage_keywords) :
        LET used == FirstOk(fetched)
            upstream == IF used = 0 THEN <<"none">> ELSE fetched[used].version
            \* notes_text is "" unless a source was used
            text == IF used = 0 THEN {} ELSE notes_text
            \* "if verified_semver and upstream" / "if verified_semver and installed"
            cmp_uv == IF verified_semver # <<"none">> /\ upstream # <<"none">>
                      THEN _compare_semver(upstream, verified_semver) ELSE <<>>
            cmp_iv == IF verified_semver # <<"none">> /\ installed # <<"none">>
                      THEN _compare_semver(installed, verified_semver) ELSE <<>>
        IN  /\ schema_hits' = _keyword_hits(text, schema_keywords)
            /\ usage_hits' = _keyword_hits(text, usage_keywords)
            /\ upstream_newer_than_verified' = (cmp_uv = <<1>>)
            /\ installed_newer_than_verified' = (cmp_iv = <<1>>)
            \* "if upstream_sources and upstream is None"
            /\ monitoring_failed' = (Len(fetched) > 0 /\ upstream = <<"none">>)
    /\ pc' = IF mode = "weekly" THEN "weekly_schema" ELSE "pick"
    /\ UNCHANGED <<diffVars, toolVars, mode, agent_name, schemaVars, probeVars, decisionVars>>

\* weekly: fingerprint of the newest local evidence against the baseline
WeeklySchema ==
    /\ pc = "weekly_schema"
    /\ \E has_cfg \in BOOLEAN,
          local_fp \in {<<>>} \cup {<<m>> : m \in TypeKeyMaps(Types, WatchKeySet)},
          baseline \in TypeKeyMaps(Types, WatchKeySet) :
        \* without a local_schema configuration nothing is read
        /\ ~has_cfg => (local_fp = <<>> /\ baseline = <<>>)
        /\ local_type_keys' = local_fp
        /\ baseline_type_keys' = baseline
        /\ IF has_cfg /\ local_fp # <<>> /\ DOMAIN baseline # {}
           THEN /\ schema_diff' = <<_schema_diff(local_fp[1], baseline)>>
                /\ schema_matches_baseline' = SchemaMatches(_schema_diff(local_fp[1], baseline))
           ELSE UNCHANGED <<schema_diff, schema_matches_baseline>>
    /\ pc' = "weekly_probes"
    /\ UNCHANGED <<diffVars, toolVars, mode, agent_name, signalVars, probeVars, decisionVars>>

\* weekly: run the configured probes and derive probe_failed and the
\* externally-degraded signal (claude only)
WeeklyProbes ==
    /\ pc = "weekly_probes"
    /\ \E probe_results \in ProbeRuns :
        IF DOMAIN probe_results # {}
        THEN /\ probe_failed' = (\E l \in DOMAIN probe_results : ~probe_results[l].ok)
             /\ probe_failed_but_upstream_degraded' =
                    (agent_name = "claude" /\ UpstreamDegraded(probe_results))
        ELSE UNCHANGED probeVars
    /\ pc' = "pick"
    /\ UNCHANGED <<diffVars, toolVars, mode, agent_name, signalVars, schemaVars, decisionVars>>

\* severity, recommendation = _pick_severity(...)
PickSeverity ==
    /\ pc = "pick"
    /\ LET r == _pick_severity(upstream_newer_than_verified, installed_newer_than_verified,
                               monitoring_failed, schema_hits, usage_hits,
                               probe_failed, probe_failed_but_upstream_degraded)
       IN  /\ picked' = r
           /\ severity' = r[1]
           /\ recommendation' = r[2]
    /\ pc' = "override"
    /\ UNCHANGED <<diffVars, toolVars, mode, agent_name, signalVars, schemaVars, probeVars, results>>

\* the post-pass override
Override ==
    /\ pc = "override"
    /\ IF OverrideApplies(mode, severity, installed_newer_than_verified,
                          schema_matches_baseline, probe_failed)
       THEN /\ severity' = "low"
            /\ recommendation' = "bump_verified_version"
       ELSE UNCHANGED <<severity, recommendation>>
    /\ pc' = "record"
    /\ UNCHANGED <<diffVars, toolVars, mode, agent_name, signalVars, schemaVars, probeVars,
                   picked, results>>

\* results[agent_name] = {..., "severity": severity, "recommendation": recommendation}
RecordResult ==
    /\ pc = "record"
    /\ results' = <<[severity |-> severity, recommendation |-> recommendation]>>
    /\ pc' = "done"
    /\ UNCHANGED <<diffVars, toolVars, mode, agent_name, signalVars, schemaVars, probeVars,
                   picked, severity, recommendation>>

Next ==
    \/ SkipAgent
    \/ ResolveVersions
    \/ WeeklySchema
    \/ WeeklyProbes
    \/ PickSeverity
    \/ Override
    \/ RecordResult

Spec == Init /\ [][Next]_vars

(***************************************************************************)
(* SpecPick: _pick_severity applied to every combination of its inputs.    *)
(***************************************************************************)
PickInit ==
    /\ DiffIdle
    /\ ToolIdle
    /\ pc = "pick"
    /\ mode = "daily"
    /\ agent_name = "codex"
    /\ upstream_newer_than_verified \in BOOLEAN
    /\ installed_newer_than_verified \in BOOLEAN
    /\ monitoring_failed \in BOOLEAN
    /\ schema_hits \in SUBSET schema_keywords
    /\ usage_hits \in SUBSET usage_keywords
    /\ probe_failed \in BOOLEAN
    /\ probe_failed_but_upstream_degraded \in BOOLEAN
    /\ local_type_keys = <<>>
    /\ baseline_type_keys = <<>>
    /\ schema_diff = <<>>
    /\ schema_matches_baseline = None
    /\ picked = <<>>
    /\ severity = None
    /\ recommendation = None
    /\ results = <<>>

SpecPick == PickInit /\ [][PickSeverity]_vars

(***************************************************************************)
(* SpecBraces: extract_balanced_braces on every text and every start that  *)
(* points at a "{".                                                        *)
(***************************************************************************)
BracesInit ==
    /\ DiffIdle
    /\ ScriptIdle
    /\ ProbeRunIdle
    /\ UpstreamIdle
    /\ pc = "idle"
    /\ mode = "daily"
    /\ agent_name = "codex"
    /\ MainIdle
    /\ CatalogIdle
    /\ FingerprintIdle
    /\ MergeIdle
    /\ BaselineIdle
    /\ brText \in Texts(MaxText) \cup {ExampleText}
    /\ brStart \in {i \in DOMAIN brText : brText[i] = "{"}
    /\ brDone = FALSE
    /\ brResult = <<>>

ExtractBraces ==
    /\ ~brDone
    /\ brDone' = TRUE
    /\ brResult' = extract_balanced_braces(brText, brStart)
    /\ UNCHANGED <<diffVars, mainVars, scriptVars, probeRunVars, upstreamVars, catalogVars, fingerprintVars, mergeVars, baselineVars, brText, brStart>>

SpecBraces == BracesInit /\ [][ExtractBraces]_vars

(***************************************************************************)
(* SpecCatalog: a scan feeds up to MaxBlocks blocks to add_tool_block; a   *)
(* second scan then feeds the same blocks, in any order, to a catalog of   *)
(* its own.                                                                *)
(***************************************************************************)
CatalogInit ==
    /\ DiffIdle
    /\ ScriptIdle
    /\ ProbeRunIdle
    /\ UpstreamIdle
    /\ pc = "idle"
    /\ mode = "daily"
    /\ agent_name = "codex"
    /\ MainIdle
    /\ BracesIdle
    /\ FingerprintIdle
    /\ MergeIdle
    /\ BaselineIdle
    /\ catA = EmptyCatalog
    /\ catB = EmptyCatalog
    /\ pendingB = EmptyBag
    /\ max_examples_per_group \in 0..MaxCap
    /\ max_examples_per_shape \in 0..MaxCap
    /\ lastCall = <<>>

AddBlockA ==
    /\ catA # <<>>
    /\ catB = EmptyCatalog
    /\ Calls(catA) < MaxBlocks
    /\ \E b \in Blocks :
        /\ catA' = add_tool_block(catA, b, max_examples_per_group, max_examples_per_shape)
        /\ pendingB' = pendingB (+) SetToBag({b})
        /\ lastCall' = <<"A", b>>
    /\ UNCHANGED <<diffVars, mainVars, scriptVars, probeRunVars, upstreamVars, bracesVars, fingerprintVars, mergeVars, baselineVars, catB, max_examples_per_group, max_examples_per_shape>>

AddBlockB ==
    /\ catB # <<>>
    /\ \E b \in BagToSet(pendingB) :
        /\ catB' = add_tool_block(catB, b, max_examples_per_group, max_examples_per_shape)
        /\ pendingB' = pendingB (-) SetToBag({b})
        /\ lastCall' = <<"B", b>>
    /\ UNCHANGED <<diffVars, mainVars, scriptVars, probeRunVars, upstreamVars, bracesVars, fingerprintVars, mergeVars, baselineVars, catA, max_examples_per_group, max_examples_per_shape>>

CatalogNext == AddBlockA \/ AddBlockB

SpecCatalog == CatalogInit /\ [][CatalogNext]_vars

(***************************************************************************)
(* SpecFingerprint: one session file is fingerprinted; for a JSONL file    *)
(* the scanned lines are then fingerprinted again in another order, or     *)
(* with one of them read a second time.                                    *)
(***************************************************************************)
FingerprintInit ==
    /\ DiffIdle
    /\ ScriptIdle
    /\ ProbeRunIdle
    /\ UpstreamIdle
    /\ pc = "idle"
    /\ mode = "daily"
    /\ agent_name = "codex"
    /\ MainIdle
    /\ BracesIdle
    /\ CatalogIdle
    /\ MergeIdle
    /\ BaselineIdle
    /\ jlFp = <<>>
    /\ jlOther = <<>>
    /\ jlOtherFp = <<>>
    /\ gmFp = <<>>
    /\ ocFp = <<>>
    /\ \/ /\ fileKind = "jsonl"
          /\ jlLines \in SeqsUpTo(JsonLines, MaxLines)
          /\ jlMax \in (-1)..MaxLines
          /\ gmDoc = <<>>
          /\ gmMax = 0
          /\ ocTree = <<>>
          /\ ocMaxMessages = 0
          /\ ocMaxParts = 0
       \/ /\ fileKind = "gemini"
          /\ jlLines = <<>>
          /\ jlMax = 0
          /\ gmDoc \in GeminiDocs(MaxLines)
          /\ gmMax \in (-1)..MaxLines
          /\ ocTree = <<>>
          /\ ocMaxMessages = 0
          /\ ocMaxParts = 0
       \/ /\ fileKind = "opencode"
          /\ jlLines = <<>>
          /\ jlMax = 0
          /\ gmDoc = <<>>
          /\ gmMax = 0
          /\ ocTree \in OcTrees
          /\ ocMaxMessages \in (-1)..MaxMessages
          /\ ocMaxParts \in (-1)..MaxPartFiles

FingerprintJsonl ==
    /\ fileKind = "jsonl"
    /\ jlFp = <<>>
    /\ jlFp' = <<_jsonl_schema_fingerprint(jlLines, jlMax)>>
    /\ UNCHANGED <<diffVars, mainVars, scriptVars, probeRunVars, upstreamVars, bracesVars, catalogVars, mergeVars, baselineVars, fileKind, geminiVars, opencodeVars, jlLines, jlMax, jlOther, jlOtherFp>>

\* the scanned lines, in any other order
FingerprintPermuted ==
    /\ jlFp # <<>>
    /\ jlOther = <<>>
    /\ LET window == TailLines(jlLines, <<>>, jlMax)
           n == Len(window)
       IN  \E p \in {q \in [1..n -> 1..n] : \A i, j \in 1..n : q[i] = q[j] => i = j} :
               /\ jlOther' = <<"permuted", [i \in 1..n |-> window[p[i]]]>>
               /\ jlOtherFp' = <<_jsonl_schema_fingerprint(jlOther'[2], jlMax)>>
    /\ UNCHANGED <<diffVars, mainVars, scriptVars, probeRunVars, upstreamVars, bracesVars, catalogVars, mergeVars, baselineVars, fileKind, geminiVars, opencodeVars, jlLines, jlMax, jlFp>>

\* the scanned lines, one of them read once more
FingerprintReingested ==
    /\ jlFp # <<>>
    /\ jlOther = <<>>
    /\ LET window == TailLines(jlLines, <<>>, jlMax)
       IN  \E i \in DOMAIN window :
               /\ jlOther' = <<"reingested", Append(window, window[i])>>
               /\ jlOtherFp' = <<_jsonl_schema_fingerprint(jlOther'[2], jlMax + 1)>>
    /\ UNCHANGED <<diffVars, mainVars, scriptVars, probeRunVars, upstreamVars, bracesVars, catalogVars, mergeVars, baselineVars, fileKind, geminiVars, opencodeVars, jlLines, jlMax, jlFp>>

FingerprintGemini ==
    /\ fileKind = "gemini"
    /\ gmFp = <<>>
    /\ gmFp' = <<_gemini_session_json_schema_fingerprint(gmDoc, gmMax)>>
    /\ UNCHANGED <<diffVars, mainVars, scriptVars, probeRunVars, upstreamVars, bracesVars, catalogVars, mergeVars, baselineVars, fileKind, jsonlVars, opencodeVars, gmDoc, gmMax>>

FingerprintOpencode ==
    /\ fileKind = "opencode"
    /\ ocFp = <<>>
    /\ ocFp' = <<_opencode_storage_session_tree_schema_fingerprint(ocTree, ocMaxMessages, ocMaxParts)>>
    /\ UNCHANGED <<diffVars, mainVars, scriptVars, probeRunVars, upstreamVars, bracesVars, catalogVars, mergeVars, baselineVars, fileKind, jsonlVars, geminiVars, ocTree, ocMaxMessages, ocMaxParts>>

FingerprintNext ==
    \/ FingerprintOpencode
    \/ FingerprintJsonl
    \/ FingerprintPermuted
    \/ FingerprintReingested
    \/ FingerprintGemini

SpecFingerprint == FingerprintInit /\ [][FingerprintNext]_vars

(***************************************************************************)
(* SpecMerge: producers hand in their fingerprints in any order, one of    *)
(* them possibly twice; the merge runs once all have arrived.              *)
(***************************************************************************)
MergeInit ==
    /\ DiffIdle
    /\ ScriptIdle
    /\ ProbeRunIdle
    /\ UpstreamIdle
    /\ pc = "idle"
    /\ mode = "daily"
    /\ agent_name = "codex"
    /\ MainIdle
    /\ BracesIdle
    /\ CatalogIdle
    /\ FingerprintIdle
    /\ BaselineIdle
    /\ mgProduced \in SeqsUpTo(MergeFingerprints, MaxFingerprints) \ {<<>>}
    /\ mgQueue = <<>>
    /\ mgMerged = <<>>

Delivered == {mgQueue[i] : i \in DOMAIN mgQueue}

Deliver ==
    /\ mgMerged = <<>>
    /\ \E i \in (DOMAIN mgProduced) \ Delivered : mgQueue' = Append(mgQueue, i)
    /\ UNCHANGED <<diffVars, mainVars, scriptVars, probeRunVars, upstreamVars, bracesVars, catalogVars, fingerprintVars, baselineVars, mgProduced, mgMerged>>

Redeliver ==
    /\ mgMerged = <<>>
    /\ Len(mgQueue) = Cardinality(Delivered)
    /\ \E i \in Delivered : mgQueue' = Append(mgQueue, i)
    /\ UNCHANGED <<diffVars, mainVars, scriptVars, probeRunVars, upstreamVars, bracesVars, catalogVars, fingerprintVars, baselineVars, mgProduced, mgMerged>>

Merge ==
    /\ mgMerged = <<>>
    /\ Delivered = DOMAIN mgProduced
    /\ LET done == _merge_type_keys([i \in DOMAIN mgQueue |-> mgProduced[mgQueue[i]]])
       IN  /\ mgMerged' = <<done.merged>>
           /\ mgProduced' =
                [p \in DOMAIN mgProduced |->
                    done.fingerprints[CHOOSE i \in DOMAIN mgQueue : mgQueue[i] = p]]
    /\ UNCHANGED <<diffVars, mainVars, scriptVars, probeRunVars, upstreamVars, bracesVars, catalogVars, fingerprintVars, baselineVars, mgQueue>>

MergeNext == Deliver \/ Redeliver \/ Merge

SpecMerge == MergeInit /\ [][MergeNext]_vars

(***************************************************************************)
(* SpecBaseline: the weekly schema step builds one producer's baseline from *)
(* its evidence files and reports it.                                      *)
(***************************************************************************)
BaselineObjects ==
    {o \in JsonObjects : o.type # <<>> /\ o.type[1] = "str" /\ o.type[2] # ""}
BaselinePathsOf(agent) ==
    {<<"fixtures/", name, ext>> : name \in {"small", "schema_drift"}, ext \in {".jsonl", ".json"}}
        \cup (IF agent = "opencode"
              THEN {<<"fixtures/storage_v2/message/", name, ".json">> : name \in {"small", "schema_drift"}}
              ELSE {})
BaselineDocs ==
    {d \in GeminiDocs(1) :
        d # <<>> /\ d[1].messages # <<>> /\ d[1].messages[1] = "list" =>
            \A i \in DOMAIN d[1].messages[2] : d[1].messages[2][i] \in BaselineObjects}
\* the files that can stand at a path when the producer's baseline is read
BaselineFilesAt(agent, path) ==
    {<<>>} \cup
    (IF ~EndsWith(path, BaselineEnding(agent)) THEN {}
     ELSE IF agent \in JsonlAgents
     THEN {<<"jsonl", l>> : l \in SeqsUpTo(BaselineObjects \cup {MalformedLine}, 1)}
     ELSE {<<"json", d>> : d \in BaselineDocs})
BaselineEntries(agent) ==
    {[path |-> <<>>, file |-> <<>>], [path |-> <<<<>>>>, file |-> <<>>]}
        \cup UNION {{[path |-> <<p>>, file |-> f] : f \in BaselineFilesAt(agent, p)} :
                      p \in BaselinePathsOf(agent)}

BaselineInit ==
    /\ DiffIdle
    /\ ScriptIdle
    /\ ProbeRunIdle
    /\ UpstreamIdle
    /\ pc = "idle"
    /\ mode = "weekly"
    /\ agent_name = "codex"
    /\ MainIdle
    /\ BracesIdle
    /\ CatalogIdle
    /\ FingerprintIdle
    /\ MergeIdle
    /\ blAgent \in {"codex", "gemini", "opencode"}
    /\ blPaths \in SeqsUpTo(BaselineEntries(blAgent), MaxPaths)
    /\ \A i, j \in DOMAIN blPaths : blPaths[i].path = blPaths[j].path => blPaths[i].file = blPaths[j].file
    /\ blTypeKeys = <<>>
    /\ blReport = <<>>

\* baseline_type_keys = _baseline_type_keys_for_agent(agent_name, baseline_paths)
BuildBaseline ==
    /\ blAgent # ""
    /\ blTypeKeys = <<>>
    /\ blTypeKeys' = <<_baseline_type_keys_for_agent(blAgent, blPaths)>>
    /\ UNCHANGED <<diffVars, mainVars, scriptVars, probeRunVars, upstreamVars, bracesVars, catalogVars, fingerprintVars, mergeVars, blAgent, blPaths, blReport>>

\* weekly_details["baseline_schema"], written when a local fingerprint was
\* found and the baseline is not empty
ReportBaseline ==
    /\ blTypeKeys # <<>>
    /\ blReport = <<>>
    /\ DOMAIN blTypeKeys[1] # {}
    /\ blReport' = <<[fixtures |-> ReportFixtures(blPaths), type_keys |-> blTypeKeys[1]]>>
    /\ UNCHANGED <<diffVars, mainVars, scriptVars, probeRunVars, upstreamVars, bracesVars, catalogVars, fingerprintVars, mergeVars, blAgent, blPaths, blTypeKeys>>

BaselineNext == BuildBaseline \/ ReportBaseline

SpecBaseline == BaselineInit /\ [][BaselineNext]_vars

(***************************************************************************)
(* SpecUpstream: main() walks the upstream sources of one producer, one    *)
(* source a step, then sets monitoring_failed.                             *)
(***************************************************************************)
UpstreamInit ==
    /\ DiffIdle
    /\ ScriptIdle
    /\ ProbeRunIdle
    /\ pc = "idle"
    /\ mode = "daily"
    /\ agent_name = "codex"
    /\ MainIdle
    /\ BracesIdle
    /\ CatalogIdle
    /\ FingerprintIdle
    /\ MergeIdle
    /\ BaselineIdle
    /\ upstream_sources \in SeqsUpTo(Sources, MaxSources)
    /\ upPc = "loop"
    /\ srcIdx = 1
    /\ fetchLog = <<>>
    /\ upstream_found = <<"none">>
    /\ upstream_source_used = <<>>
    /\ upstream_errors = <<>>
    /\ up_monitoring_failed = FALSE

\* "if not isinstance(s, dict): continue"
SkipSource ==
    /\ upPc = "loop"
    /\ srcIdx <= Len(upstream_sources)
    /\ upstream_sources[srcIdx].kind = "not_a_dict"
    /\ srcIdx' = srcIdx + 1
    /\ UNCHANGED <<diffVars, mainVars, scriptVars, probeRunVars, bracesVars, catalogVars, fingerprintVars, mergeVars, baselineVars, upstream_sources, upPc, fetchLog, upstream_found, upstream_source_used, upstream_errors, up_monitoring_failed>>

\* one source is fetched: used when ok, else recorded as an error
FetchSource ==
    /\ upPc = "loop"
    /\ srcIdx <= Len(upstream_sources)
    /\ upstream_sources[srcIdx].kind # "not_a_dict"
    /\ LET res == _fetch_upstream(upstream_sources[srcIdx])
       IN  /\ fetchLog' = Append(fetchLog, srcIdx)
           /\ IF res.ok
              THEN /\ upstream_found' = res.version
                   /\ upstream_source_used' = <<res>>
                   /\ upPc' = "after"
                   /\ UNCHANGED <<srcIdx, upstream_errors>>
              ELSE /\ upstream_errors' = Append(upstream_errors, res)
                   /\ srcIdx' = srcIdx + 1
                   /\ UNCHANGED <<upstream_found, upstream_source_used, upPc>>
    /\ UNCHANGED <<diffVars, mainVars, scriptVars, probeRunVars, bracesVars, catalogVars, fingerprintVars, mergeVars, baselineVars, upstream_sources, up_monitoring_failed>>

\* the list is exhausted
EndOfSources ==
    /\ upPc = "loop"
    /\ srcIdx > Len(upstream_sources)
    /\ upPc' = "after"
    /\ UNCHANGED <<diffVars, mainVars, scriptVars, probeRunVars, bracesVars, catalogVars, fingerprintVars, mergeVars, baselineVars, upstream_sources, srcIdx, fetchLog, upstream_found, upstream_source_used, upstream_errors, up_monitoring_failed>>

\* "if upstream_sources and upstream is None: monitoring_failed = True"
SetMonitoringFailed ==
    /\ upPc = "after"
    /\ up_monitoring_failed' = (Len(upstream_sources) > 0 /\ upstream_found = <<"none">>)
    /\ upPc' = "done"
    /\ UNCHANGED <<diffVars, mainVars, scriptVars, probeRunVars, bracesVars, catalogVars, fingerprintVars, mergeVars, baselineVars, upstream_sources, srcIdx, fetchLog, upstream_found, upstream_source_used, upstream_errors>>

UpstreamNext == SkipSource \/ FetchSource \/ EndOfSources \/ SetMonitoringFailed

SpecUpstream == UpstreamInit /\ [][UpstreamNext]_vars

(***************************************************************************)
(* SpecProbe: main() runs the configured probes in turn and sets           *)
(* probe_failed.                                                           *)
(***************************************************************************)
ProbeInit ==
    /\ DiffIdle
    /\ ScriptIdle
    /\ pc = "idle"
    /\ mode = "weekly"
    /\ agent_name = "codex"
    /\ MainIdle
    /\ BracesIdle
    /\ CatalogIdle
    /\ FingerprintIdle
    /\ MergeIdle
    /\ BaselineIdle
    /\ UpstreamIdle
    /\ probes_cfg \in SeqsUpTo(Probes, MaxProbes)
    /\ prPc = "loop"
    /\ prIdx = 1
    /\ prResults = <<>>
    /\ any_probe_failed = FALSE

\* "if not isinstance(p, dict): continue"
SkipProbe ==
    /\ prPc = "loop"
    /\ prIdx <= Len(probes_cfg)
    /\ probes_cfg[prIdx].entry # "dict"
    /\ prIdx' = prIdx + 1
    /\ UNCHANGED <<diffVars, mainVars, scriptVars, bracesVars, catalogVars, fingerprintVars, mergeVars, baselineVars, upstreamVars, probes_cfg, prPc, prResults, any_probe_failed>>

\* probe_results.append(_run_probe_script(p, ...))
RunProbe ==
    /\ prPc = "loop"
    /\ prIdx <= Len(probes_cfg)
    /\ probes_cfg[prIdx].entry = "dict"
    /\ prResults' = Append(prResults, [at |-> prIdx, res |-> _run_probe_script(probes_cfg[prIdx])])
    /\ prIdx' = prIdx + 1
    /\ UNCHANGED <<diffVars, mainVars, scriptVars, bracesVars, catalogVars, fingerprintVars, mergeVars, baselineVars, upstreamVars, probes_cfg, prPc, any_probe_failed>>

\* "if probe_results: probe_failed = any(not pr.get("ok") ...)"
SetProbeFailed ==
    /\ prPc = "loop"
    /\ prIdx > Len(probes_cfg)
    /\ any_probe_failed' = (\E k \in DOMAIN prResults : ~prResults[k].res.ok)
    /\ prPc' = "done"
    /\ UNCHANGED <<diffVars, mainVars, scriptVars, bracesVars, catalogVars, fingerprintVars, mergeVars, baselineVars, upstreamVars, probes_cfg, prIdx, prResults>>

ProbeNext == SkipProbe \/ RunProbe \/ SetProbeFailed

SpecProbe == ProbeInit /\ [][ProbeNext]_vars

(***************************************************************************)
(* SpecRun: main() from the first agent to its return.  The loop body is   *)
(* one step here; Spec takes it apart.                                     *)
(***************************************************************************)
RunInit ==
    /\ DiffIdle
    /\ PartIdle
    /\ PurgeIdle
    /\ ScanIdle
    /\ pc = "idle"
    /\ mode \in Modes
    /\ agent_name = "codex"
    /\ MainIdle
    /\ runPc = "loop"
    /\ runAgents \in AgentConfigs
    /\ runIdx = 1
    /\ runResults = <<>>
    /\ any_actionable = FALSE
    /\ summary_lines = <<>>
    /\ lastScan = <<>>
    /\ report_json = <<>>
    /\ printed = <<>>
    /\ exit_code = <<>>

\* whether the agent at the loop position is scheduled for this mode
Due == IF mode = "daily" THEN runAgents[runIdx].daily ELSE runAgents[runIdx].weekly

\* the cadence check: "continue"
NotDue ==
    /\ runPc = "loop"
    /\ runIdx <= Len(runAgents)
    /\ ~Due
    /\ runIdx' = runIdx + 1
    /\ UNCHANGED <<diffVars, mainVars, partVars, besideRunVars, runPc, runAgents, runResults, any_actionable, summary_lines, lastScan, report_json, printed, exit_code>>

\* the loop body for a scheduled agent
ScanAgent ==
    /\ runPc = "loop"
    /\ runIdx <= Len(runAgents)
    /\ Due
    /\ \E sig \in VersionSignals,
          matches \in IF mode = "weekly" THEN SchemaOutcomes ELSE {None},
          probe_results \in IF mode = "weekly" THEN ProbeRuns ELSE {<<>>} :
        /\ LET name == runAgents[runIdx].name
               p_failed == AnyProbeFailed(probe_results)
               p_degraded == DOMAIN probe_results # {} /\ name = "claude" /\ UpstreamDegraded(probe_results)
               pick == _pick_severity(sig.upstream_newer, sig.installed_newer, sig.monitoring_failed,
                                      sig.schema_hits, sig.usage_hits, p_failed, p_degraded)
               final == IF OverrideApplies(mode, pick[1], sig.installed_newer, matches, p_failed)
                        THEN <<"low", "bump_verified_version">> ELSE pick
           IN  /\ any_actionable' = (any_actionable \/ Actionable(mode, final[1]))
               /\ runResults' = [a \in DOMAIN runResults \cup {name} |->
                                    IF a = name THEN [severity |-> final[1], recommendation |-> final[2]]
                                    ELSE runResults[a]]
               /\ summary_lines' = IF final[1] # "none"
                                    THEN Append(summary_lines, [agent |-> name, severity |-> final[1]])
                                    ELSE summary_lines
               /\ lastScan' = <<[agent |-> name, probe_failed |-> p_failed,
                                 probe_failed_but_upstream_degraded |-> p_degraded,
                                 status_degraded |-> StatusDegraded(probe_results),
                                 usage_failed |-> UsageFailed(probe_results),
                                 picked |-> pick]>>
    /\ runIdx' = runIdx + 1
    /\ UNCHANGED <<diffVars, mainVars, partVars, besideRunVars, runPc, runAgents, report_json, printed, exit_code>>

\* the loop is over
EndOfAgents ==
    /\ runPc = "loop"
    /\ runIdx > Len(runAgents)
    /\ runPc' = "report"
    /\ UNCHANGED <<diffVars, mainVars, partVars, besideRunVars, runAgents, runIdx, runResults, any_actionable, summary_lines, lastScan, report_json, printed, exit_code>>

\* report_path.write_text(json.dumps(report, ...))
WriteReport ==
    /\ runPc = "report"
    /\ report_json' = <<[mode |-> mode, results |-> runResults]>>
    /\ runPc' = "output"
    /\ UNCHANGED <<diffVars, mainVars, partVars, besideRunVars, runAgents, runIdx, runResults, any_actionable, summary_lines, lastScan, printed, exit_code>>

\* the output policy
PrintSummary ==
    /\ runPc = "output"
    /\ printed' = IF mode = "weekly" \/ any_actionable THEN <<Printed(summary_lines)>> ELSE <<>>
    /\ runPc' = "return"
    /\ UNCHANGED <<diffVars, mainVars, partVars, besideRunVars, runAgents, runIdx, runResults, any_actionable, summary_lines, lastScan, report_json, exit_code>>

\* both "return 0"
Return ==
    /\ runPc = "return"
    /\ exit_code' = <<0>>
    /\ runPc' = "exit"
    /\ UNCHANGED <<diffVars, mainVars, partVars, besideRunVars, runAgents, runIdx, runResults, any_actionable, summary_lines, lastScan, report_json, printed>>

RunNext ==
    \/ NotDue
    \/ ScanAgent
    \/ EndOfAgents
    \/ WriteReport
    \/ PrintSummary
    \/ Return

SpecRun == RunInit /\ [][RunNext]_vars

(***************************************************************************)
(* SpecPurge: one run of purge_droid_test_sessions.py or of                *)
(* purge_no_prompt_sessions.py.                                            *)
(***************************************************************************)
PurgeInit ==
    /\ DiffIdle
    /\ MainParked
    /\ PartIdle
    /\ RunIdle
    /\ ScanIdle
    /\ purgeArgs \in PurgeArgs
    /\ \/ /\ purgeScript = "droid"
          /\ ~purgeArgs.include_blank
          /\ purgeGuard \in {"ok", "root_is_slash", "root_is_home", "root_missing"}
          /\ purgeFiles \in SeqsUpTo(DroidFiles, MaxFiles)
       \/ /\ purgeScript = "no_prompt"
          /\ purgeGuard \in {"ok", "db_missing"}
          /\ purgeFiles \in SeqsUpTo(IndexRows, MaxFiles)
    /\ purgeGuard # "ok" => purgeFiles = <<>>
    /\ purgePc = "scan"
    /\ to_delete = <<>>
    /\ purgeAt = 0
    /\ onDisk = [i \in DOMAIN purgeFiles |-> "present"]
    /\ manifest = <<>>
    /\ purgeRc = <<>>

\* _refuse_dangerous_root / "index.db not found": raise SystemExit
PurgeRefuse ==
    /\ purgePc = "scan"
    /\ purgeGuard # "ok"
    /\ purgeRc' = <<"SystemExit">>
    /\ purgePc' = "exit"
    /\ UNCHANGED <<diffVars, mainVars, partVars, besidePurgeVars, purgeScript, purgeArgs, purgeGuard, purgeFiles, to_delete, purgeAt, onDisk, manifest>>

\* main() from the scan to the last test before the loop
PurgeScan ==
    /\ purgePc = "scan"
    /\ purgeGuard = "ok"
    /\ LET found == IF purgeScript = "droid" THEN BothBucket(purgeFiles)
                    ELSE Eligible(purgeFiles, purgeArgs.include_blank)
           n == Cardinality(found)
       IN  /\ to_delete' = InOrder(found)
           /\ manifest' = <<[mode |-> IF purgeArgs.execute THEN "execute" ELSE "dry_run", count |-> n]>>
           /\ IF ~purgeArgs.execute THEN purgeRc' = <<0>> /\ purgePc' = "exit"
              ELSE IF ~Confirmed(purgeArgs.confirm, n) THEN purgeRc' = <<2>> /\ purgePc' = "exit"
              ELSE IF n = 0 THEN purgeRc' = <<0>> /\ purgePc' = "exit"
              ELSE purgeRc' = <<>> /\ purgePc' = "loop"
    /\ purgeAt' = 1
    /\ UNCHANGED <<diffVars, mainVars, partVars, besidePurgeVars, purgeScript, purgeArgs, purgeGuard, purgeFiles, onDisk>>

\* one pass of the loop: shutil.move or unlink, either of which may fail
\* with OSError and leave the file where it is
PurgeOne ==
    /\ purgePc = "loop"
    /\ purgeAt <= Len(to_delete)
    /\ \E failed \in BOOLEAN :
        onDisk' = [onDisk EXCEPT ![to_delete[purgeAt]] =
                      IF failed THEN @ ELSE IF purgeArgs.move THEN "moved" ELSE "deleted"]
    /\ purgeAt' = purgeAt + 1
    /\ UNCHANGED <<diffVars, mainVars, partVars, besidePurgeVars, purgeScript, purgeArgs, purgeGuard, purgeFiles, purgePc, to_delete, manifest, purgeRc>>

\* after the loop: return 0
PurgeReturn ==
    /\ purgePc = "loop"
    /\ purgeAt > Len(to_delete)
    /\ purgeRc' = <<0>>
    /\ purgePc' = "exit"
    /\ UNCHANGED <<diffVars, mainVars, partVars, besidePurgeVars, purgeScript, purgeArgs, purgeGuard, purgeFiles, to_delete, purgeAt, onDisk, manifest>>

PurgeNext ==
    \/ PurgeRefuse
    \/ PurgeScan
    \/ PurgeOne
    \/ PurgeReturn

SpecPurge == PurgeInit /\ [][PurgeNext]_vars

(***************************************************************************)
(* SpecDirection: infer_direction_from_payload applied to one payload      *)
(***************************************************************************)
DirectionInit ==
    /\ DiffIdle
    /\ MainParked
    /\ PartIdle
    /\ RunIdle
    /\ PurgeIdle
    /\ SplitIdle
    /\ TextBlockIdle
    /\ dirPayload \in Payloads
    /\ dirResult = <<>>

InferDirection ==
    /\ dirResult = <<>>
    /\ dirResult' = <<infer_direction_from_payload(dirPayload)>>
    /\ UNCHANGED <<diffVars, mainVars, partVars, besideScanVars, splitVars, textBlockVars, dirPayload>>

SpecDirection == DirectionInit /\ [][InferDirection]_vars

(***************************************************************************)
(* SpecSplit: iter_json_items_with_raw reads one JSON document             *)
(***************************************************************************)
SplitInit ==
    /\ DiffIdle
    /\ MainParked
    /\ PartIdle
    /\ RunIdle
    /\ PurgeIdle
    /\ DirectionIdle
    /\ TextBlockIdle
    /\ spDoc \in Documents
    /\ spDone = FALSE
    /\ raw_items = <<>>
    /\ spYielded = <<>>

IterJsonItems ==
    /\ ~spDone
    /\ spDone' = TRUE
    /\ raw_items' = extract_raw_items_from_json(DocumentText(spDoc))
    /\ spYielded' = iter_json_items_with_raw(DocumentText(spDoc))
    /\ UNCHANGED <<diffVars, mainVars, partVars, besideScanVars, directionVars, textBlockVars, spDoc>>

SpecSplit == SplitInit /\ [][IterJsonItems]_vars

(***************************************************************************)
(* SpecTextBlocks: extract_text_tool_blocks applied to one text            *)
(***************************************************************************)
TextBlocksInit ==
    /\ DiffIdle
    /\ MainParked
    /\ PartIdle
    /\ RunIdle
    /\ PurgeIdle
    /\ DirectionIdle
    /\ SplitIdle
    /\ tbText \in ToolTexts
    /\ tbDone = FALSE
    /\ tbResults = <<>>

ExtractTextToolBlocks ==
    /\ ~tbDone
    /\ tbDone' = TRUE
    /\ tbResults' = extract_text_tool_blocks(tbText)
    /\ UNCHANGED <<diffVars, mainVars, partVars, besideScanVars, directionVars, splitVars, tbText>>

SpecTextBlocks == TextBlocksInit /\ [][ExtractTextToolBlocks]_vars

(***************************************************************************)
(* Properties.                                                             *)
(***************************************************************************)
Final == <<severity, recommendation>>
Decided == pc \in {"record", "done"} /\ picked # <<>>
KeywordHit == schema_hits # {} \/ usage_hits # {}
SeverityRank(s) == CASE s = "none" -> 0 [] s = "low" -> 1 [] s = "medium" -> 2 [] s = "high" -> 3

C2_Reflexive ==
    (diffAB # <<>> /\ fpA = fpB) =>
        /\ diffAB[1].unknown_types = {}
        /\ diffAB[1].missing_types = {}
        /\ DOMAIN diffAB[1].unknown_keys = {}
        /\ DOMAIN diffAB[1].missing_keys = {}
        /\ ~Drift(diffAB[1])

C2_Witness ==
    /\ diffAB # <<>>
    /\ fpA = fpB
    /\ \E t \in DOMAIN fpA : fpA[t] # {}

ScenarioBaseline == [t \in {"message.user"} |-> {"role", "content"}]
ScenarioObserved == [t \in {"message.user"} |-> {"role", "content", "attachments"}]

\* C3: for every type, unknown_keys[t] is exactly the keys observed for t
\* that the baseline does not have for t, missing_keys[t] exactly the
\* baseline's keys for t that were not observed, and t is absent from the
\* map when that set is empty.  A known type with a new key gives drift; a
\* map that only lost keys of known types gives no drift and no unknown
\* keys; the message.user scenario gives unknown_keys =
\* {message.user: [attachments]} and drift.
C3_KeysPerType ==
    diffAB # <<>> =>
        LET d == diffAB[1]
            has(m, t, k) == t \in DOMAIN m /\ k \in m[t]
            ext(t) == {k \in Keys : has(fpA, t, k) /\ ~has(fpB, t, k)}
            mis(t) == {k \in Keys : has(fpB, t, k) /\ ~has(fpA, t, k)}
        IN  /\ \A t \in Types :
                /\ (t \in DOMAIN d.unknown_keys) <=> (ext(t) # {})
                /\ (t \in DOMAIN d.missing_keys) <=> (mis(t) # {})
                /\ t \in DOMAIN d.unknown_keys => d.unknown_keys[t] = ext(t)
                /\ t \in DOMAIN d.missing_keys => d.missing_keys[t] = mis(t)
            /\ DOMAIN d.unknown_keys \subseteq Types
            /\ DOMAIN d.missing_keys \subseteq Types
            /\ (\E t \in DOMAIN fpA \cap DOMAIN fpB : ext(t) # {}) => Drift(d)
            /\ (DOMAIN fpA = DOMAIN fpB /\ \A t \in DOMAIN fpA : fpA[t] \subseteq fpB[t]) =>
                    (~Drift(d) /\ DOMAIN d.unknown_keys = {}
                     /\ DOMAIN d.missing_keys = {t \in DOMAIN fpA : fpA[t] # fpB[t]})
            /\ (fpA = ScenarioObserved /\ fpB = ScenarioBaseline) =>
                    /\ DOMAIN d.unknown_keys = {"message.user"}
                    /\ d.unknown_keys["message.user"] = {"attachments"}
                    /\ Drift(d)

C3_Witness ==
    /\ diffAB # <<>>
    /\ fpA = ScenarioObserved
    /\ fpB = ScenarioBaseline

\* C4: swapping observed and baseline swaps the unknown and the missing
\* side of the diff, for types and for keys.
C4_SwapSymmetric ==
    (diffAB # <<>> /\ diffBA # <<>>) =>
        /\ diffAB[1].unknown_types = diffBA[1].missing_types
        /\ diffAB[1].missing_types = diffBA[1].unknown_types
        /\ diffAB[1].unknown_keys = diffBA[1].missing_keys
        /\ diffAB[1].missing_keys = diffBA[1].unknown_keys

\* a pair for which the verdict is not symmetric
C4_Witness ==
    /\ diffAB # <<>>
    /\ diffBA # <<>>
    /\ diffAB[1].unknown_types # {}
    /\ Drift(diffAB[1])
    /\ ~Drift(diffBA[1])

\* C5: _pick_severity returns, for every combination of its inputs, the
\* pair of the first rule of the ordered list whose condition holds.
C5_RuleList ==
    picked # <<>> =>
        LET mf == monitoring_failed
            pf == probe_failed
            dg == probe_failed_but_upstream_degraded
            inst == installed_newer_than_verified
            up == upstream_newer_than_verified
        IN  /\ mf => picked = <<"high", "prepare_hotfix">>
            /\ (~mf /\ pf /\ ~dg) => picked = <<"high", "prepare_hotfix">>
            /\ (~mf /\ pf /\ dg) => picked = <<"medium", "monitor">>
            /\ (~mf /\ ~pf /\ inst) => picked = <<"medium", "run_weekly_now">>
            /\ (~mf /\ ~pf /\ ~inst /\ ~up) => picked = <<"none", "ignore">>
            /\ (~mf /\ ~pf /\ ~inst /\ up /\ KeywordHit) => picked = <<"medium", "run_weekly_now">>
            /\ (~mf /\ ~pf /\ ~inst /\ up /\ ~KeywordHit) => picked = <<"low", "monitor">>
            /\ picked \in {<<"high", "prepare_hotfix">>, <<"medium", "monitor">>,
                           <<"medium", "run_weekly_now">>, <<"none", "ignore">>,
                           <<"low", "monitor">>}

\* rule 5 decides although a keyword was hit
C5_Witness ==
    /\ picked = <<"none", "ignore">>
    /\ KeywordHit

\* C6: when monitoring_failed is true the decision is (high,
\* prepare_hotfix), before and after the override and in the recorded
\* result, in daily and in weekly mode.
C6_MonitoringFailedForcesHigh ==
    (monitoring_failed /\ picked # <<>>) =>
        /\ picked = <<"high", "prepare_hotfix">>
        /\ Final = <<"high", "prepare_hotfix">>
        /\ results # <<>> =>
               results[1] = [severity |-> "high", recommendation |-> "prepare_hotfix"]

\* monitoring failed in a weekly run in which every other condition of the
\* override holds
C6_Witness ==
    /\ monitoring_failed
    /\ results # <<>>
    /\ mode = "weekly"
    /\ installed_newer_than_verified
    /\ schema_matches_baseline = "True"
    /\ ~probe_failed

\* C7: weekly mode, installed newer than verified, every other signal
\* false, and the schema diff shows no drift: the pre-override decision is
\* (medium, run_weekly_now) and the final one (low, bump_verified_version).
C7_OverrideScenario ==
    (/\ Decided
     /\ mode = "weekly"
     /\ installed_newer_than_verified
     /\ ~upstream_newer_than_verified
     /\ ~monitoring_failed
     /\ ~KeywordHit
     /\ ~probe_failed
     /\ ~probe_failed_but_upstream_degraded
     /\ schema_diff # <<>>
     /\ ~Drift(schema_diff[1])) =>
        /\ picked = <<"medium", "run_weekly_now">>
        /\ Final = <<"low", "bump_verified_version">>

\* the scenario, with a diff that is not empty (a type is missing)
C7_Witness ==
    /\ results # <<>>
    /\ mode = "weekly"
    /\ installed_newer_than_verified
    /\ ~upstream_newer_than_verified
    /\ ~monitoring_failed
    /\ ~KeywordHit
    /\ ~probe_failed
    /\ schema_diff # <<>>
    /\ ~Drift(schema_diff[1])
    /\ schema_diff[1].missing_types # {}
    /\ results[1] = [severity |-> "low", recommendation |-> "bump_verified_version"]

\* C8 as stated: when installed_newer_than_verified coincides with a
\* schema or usage keyword hit, the recorded decision is never the
\* downgraded (low, bump_verified_version).
C8_KeywordHitsBlockOverride ==
    (results # <<>> /\ installed_newer_than_verified /\ KeywordHit) =>
        results[1] # [severity |-> "low", recommendation |-> "bump_verified_version"]

\* C8 amended: keyword hits do not block the override.  When
\* installed_newer_than_verified coincides with a keyword hit, the recorded
\* decision is (low, bump_verified_version) exactly when the run is weekly,
\* the schema comparison ran and showed no drift, no probe failed and
\* monitoring did not fail; the pre-override decision is then rule 4's
\* (medium, run_weekly_now).
C8_KeywordHitsDoNotBlock ==
    (results # <<>> /\ installed_newer_than_verified /\ KeywordHit) =>
        /\ (results[1] = [severity |-> "low", recommendation |-> "bump_verified_version"])
            <=> (/\ mode = "weekly"
                 /\ schema_diff # <<>>
                 /\ ~Drift(schema_diff[1])
                 /\ ~probe_failed
                 /\ ~monitoring_failed)
        /\ (results[1] = [severity |-> "low", recommendation |-> "bump_verified_version"])
            => picked = <<"medium", "run_weekly_now">>

C8_Witness ==
    /\ results # <<>>
    /\ installed_newer_than_verified
    /\ schema_hits # {}
    /\ usage_hits # {}
    /\ mode = "weekly"
    /\ schema_diff # <<>>
    /\ ~Drift(schema_diff[1])
    /\ results[1] = [severity |-> "low", recommendation |-> "bump_verified_version"]

\* C9: the override acts after _pick_severity and only relaxes: the final
\* severity never ranks above the picked one, a picked severity of high or
\* none is final, and nothing is decided before _pick_severity has run.
C9_OverrideOnlyRelaxes ==
    /\ picked = <<>> => (severity = None /\ recommendation = None)
    /\ picked # <<>> =>
        /\ SeverityRank(severity) <= SeverityRank(picked[1])
        /\ picked[1] \in {"high", "none"} => Final = picked
    /\ results # <<>> => results[1] = [severity |-> severity, recommendation |-> recommendation]

\* the override has relaxed medium to low
C9_Witness ==
    /\ results # <<>>
    /\ picked[1] = "medium"
    /\ severity = "low"

\* C10: in daily mode the final decision is the picked one and is never
\* bump_verified_version; in weekly mode the final decision differs from
\* the picked one only if installed_newer_than_verified holds, the schema
\* comparison ran and showed no drift, and no probe failed.
C10_OverrideOnlyWeekly ==
    Decided =>
        /\ mode = "daily" => (Final = picked /\ recommendation # "bump_verified_version")
        /\ (mode = "weekly" /\ Final # picked) =>
            /\ installed_newer_than_verified
            /\ schema_diff # <<>>
            /\ ~Drift(schema_diff[1])
            /\ ~probe_failed
        /\ Final # picked => Final = <<"low", "bump_verified_version">>

\* a daily run with installed newer than verified keeps the picked decision
C10_Witness ==
    /\ results # <<>>
    /\ mode = "daily"
    /\ installed_newer_than_verified
    /\ picked = <<"medium", "run_weekly_now">>
    /\ Final = picked

\* the reading of the text that C11 states, written without the scanner's
\* loop: a quote is escaped when an odd number of backslashes precedes it
\* inside the string; a position is inside a string when the last
\* unescaped quote before it opened one
BackslashRun(text, j) ==
    LET runs == {n \in 0..(j - 1) : \A k \in (j - n)..(j - 1) : text[k] = "\\"}
    IN  CHOOSE n \in runs : \A m \in runs : m <= n
RECURSIVE InsideString(_, _, _)
InsideString(text, start, j) ==
    IF j <= start THEN FALSE
    ELSE LET before == InsideString(text, start, j - 1)
             \* backslashes only count from the string's opening quote on
             run == BackslashRun(text, j - 1)
         IN  IF text[j - 1] # "\""
             THEN before
             ELSE IF ~before THEN TRUE
             ELSE (run % 2 = 1)
StructuralDepth(text, start, i) ==
    Cardinality({j \in start..i : text[j] = "{" /\ ~InsideString(text, start, j)})
    - Cardinality({j \in start..i : text[j] = "}" /\ ~InsideString(text, start, j)})
MatchingClose(text, start) ==
    {i \in start..Len(text) :
        /\ text[i] = "}"
        /\ ~InsideString(text, start, i)
        /\ StructuralDepth(text, start, i) = 0}

\* C11: with text[start] = "{", extract_balanced_braces returns the substring
\* from start to the first "}" outside string literals at which the braces
\* outside string literals balance, where a quote preceded inside the string
\* by an odd number of backslashes does not end the string; None when there
\* is no such "}"; on the example text the result is {"a": "b{c}", "d": 1}.
C11_BalancedBraces ==
    brDone =>
        LET closes == MatchingClose(brText, brStart)
        IN  /\ closes = {} => brResult = <<>>
            /\ closes # {} =>
                 LET i == CHOOSE c \in closes : \A d \in closes : c <= d
                 IN  brResult = <<SubSeq(brText, brStart, i)>>
            /\ (brText = ExampleText /\ brStart = 11) =>
                 brResult = <<SubSeq(ExampleText, 11, 31)>>

\* a text in which an escaped quote and a "}" inside the string precede the
\* matching "}"
C11_Witness ==
    /\ brText = <<"{", "\"", "\\", "\"", "}", "\"", "}">>
    /\ brStart = 1
    /\ brDone
    /\ brResult = <<brText>>

GroupCounts(cat) == [k \in DOMAIN cat.groups |-> cat.groups[k].count]
SecondScanDone == Len(lastCall) = 2 /\ lastCall[1] = "B" /\ pendingB = EmptyBag

\* C12: two scans that feed the same multiset of blocks to add_tool_block,
\* in any two orders, end with the same set of group keys and the same count
\* in every group.
C12_OrderIndependent ==
    SecondScanDone =>
        /\ DOMAIN catA.groups = DOMAIN catB.groups
        /\ GroupCounts(catA) = GroupCounts(catB)

\* the two scans read two blocks of one group in different orders (their
\* stored examples differ)
C12_Witness ==
    /\ SecondScanDone
    /\ \E k \in DOMAIN catA.groups :
        /\ catA.groups[k].count >= 2
        /\ catA.groups[k].examples # catB.groups[k].examples

IsPrefix(s, t) == Len(s) <= Len(t) /\ SubSeq(t, 1, Len(s)) = s
ExamplesOf(cat) ==
    {cat.groups[k].examples : k \in DOMAIN cat.groups}
        \cup {cat.shapes[g].examples : g \in DOMAIN cat.shapes}
ExamplesKept(old, new) ==
    /\ \A k \in DOMAIN old.groups :
        k \in DOMAIN new.groups /\ IsPrefix(old.groups[k].examples, new.groups[k].examples)
    /\ \A g \in DOMAIN old.shapes :
        g \in DOMAIN new.shapes /\ IsPrefix(old.shapes[g].examples, new.shapes[g].examples)
ExamplesCapped(cat) ==
    /\ \A k \in DOMAIN cat.groups : Len(cat.groups[k].examples) <= max_examples_per_group
    /\ \A g \in DOMAIN cat.shapes : Len(cat.shapes[g].examples) <= max_examples_per_shape

\* C13: after every add_tool_block call each group holds at most
\* max_examples_per_group examples and each shape at most
\* max_examples_per_shape, and a call only appends: the examples a group or
\* shape held before the call are a prefix of those it holds after it.
C13_ExamplesBounded ==
    [][/\ ExamplesCapped(catA') /\ ExamplesCapped(catB')
       /\ ExamplesKept(catA, catA') /\ ExamplesKept(catB, catB')]_vars

\* a call that finds its group full: the block is counted, the examples stay
C13_Witness ==
    /\ Len(lastCall) = 2
    /\ lastCall[1] = "A"
    /\ ~example_is_too_large(lastCall[2])
    /\ max_examples_per_group >= 1
    /\ LET g == catA.groups[GroupKey(lastCall[2])]
       IN  g.count > Len(g.examples) /\ Len(g.examples) = max_examples_per_group

CountOf(F, k) == IF k \in DOMAIN F THEN F[k].count ELSE 0
CountedOnce(old, new, b) ==
    /\ CountOf(new.groups, GroupKey(b)) = CountOf(old.groups, GroupKey(b)) + 1
    /\ CountOf(new.shapes, b.shape_signature) = CountOf(old.shapes, b.shape_signature) + 1
NoOversizedExample(cat) ==
    \A ex \in ExamplesOf(cat) : \A i \in DOMAIN ex :
        /\ ex[i].raw_event <= MAX_EXAMPLE_CHARS
        /\ ex[i].raw_payload # <<>> => ex[i].raw_payload[1] <= MAX_EXAMPLE_CHARS

\* C14: every add_tool_block call raises the count of the block's group and
\* the count of its shape by exactly one, whether or not the example is
\* stored, and no stored example has a raw_event or a raw_payload longer than
\* MAX_EXAMPLE_CHARS.
C14_OversizedCounted ==
    [][/\ Len(lastCall') = 2
       /\ lastCall'[1] = "A" => CountedOnce(catA, catA', lastCall'[2])
       /\ lastCall'[1] = "B" => CountedOnce(catB, catB', lastCall'[2])
       /\ NoOversizedExample(catA') /\ NoOversizedExample(catB')]_vars

\* two oversized payloads were counted in a group with room left, none stored
C14_Witness ==
    /\ Len(lastCall) = 2
    /\ lastCall[1] = "A"
    /\ lastCall[2].raw_event <= MAX_EXAMPLE_CHARS
    /\ lastCall[2].raw_payload = <<MAX_EXAMPLE_CHARS + 1>>
    /\ LET g == catA.groups[GroupKey(lastCall[2])]
       IN  g.count = 2 /\ Len(g.examples) = 0 /\ max_examples_per_group >= 1

Reread == jlOther[2][Len(jlOther[2])]
CountIn(counts, t) == IF t \in DOMAIN counts THEN counts[t] ELSE 0

\* C15 as stated: the fingerprint of the scanned lines is the same in every
\* order of the lines, and the same when a line already read is read again.
C15_FoldIdempotent ==
    jlOtherFp # <<>> => jlOtherFp = jlFp

\* C15, amended: the fingerprint of the scanned lines is the same in every
\* order of the lines; reading again a line already read leaves type_keys
\* unchanged, raises parsed_lines by one, raises parse_errors by one when
\* the line is malformed, and raises the type_counts entry of the line's
\* type by one when the line is an object.
C15_FoldCommutative ==
    jlOtherFp # <<>> =>
        LET fp == jlFp[1]
            other == jlOtherFp[1]
        IN  /\ jlOther[1] = "permuted" => other = fp
            /\ jlOther[1] = "reingested" =>
                /\ other.type_keys = fp.type_keys
                /\ other.parsed_lines = fp.parsed_lines + 1
                /\ other.parse_errors =
                       fp.parse_errors + (IF Reread.kind = "malformed" THEN 1 ELSE 0)
                /\ DOMAIN other.type_counts = DOMAIN fp.type_counts
                /\ \A t \in DOMAIN fp.type_counts :
                       other.type_counts[t] = fp.type_counts[t] +
                           (IF Reread.kind = "object" /\ EventType(Reread) = t THEN 1 ELSE 0)

\* an object line is read a second time: same keys, one more occurrence
C15_Witness ==
    /\ jlOtherFp # <<>>
    /\ jlOther[1] = "reingested"
    /\ Reread.kind = "object"
    /\ Reread.keys = {"role"}
    /\ jlFp[1].type_keys["message.user"] = {"type", "role", "content"}
    /\ jlOtherFp[1].type_counts["message.user"] = 3

\* the lines _jsonl_schema_fingerprint scans: the last max_lines of the
\* lines that are not blank
ScanWindow ==
    LET inked == SelectSeq(jlLines, LAMBDA l : l.kind # "blank")
        n == IF jlMax < Len(inked) THEN jlMax ELSE Len(inked)
    IN  SubSeq(inked, Len(inked) - n + 1, Len(inked))
ObjectsOfType(w, t) == {i \in DOMAIN w : w[i].kind = "object" /\ EventType(w[i]) = t}

\* C20: each malformed line among the scanned lines raises parse_errors by
\* one and adds nothing to type_keys or type_counts; every object line among
\* the scanned lines, before or after a malformed one, is counted under its
\* type with all its keys; a Gemini document or an OpenCode session file
\* that cannot be parsed yields empty type_keys and type_counts, nothing
\* parsed, and parse_errors = 1.
C20_MalformedSkipped ==
    /\ jlFp # <<>> =>
        LET fp == jlFp[1]
            w == ScanWindow
            seen == {EventType(w[i]) : i \in {j \in DOMAIN w : w[j].kind = "object"}}
        IN  /\ fp.parse_errors = Cardinality({i \in DOMAIN w : w[i].kind = "malformed"})
            /\ DOMAIN fp.type_keys = seen
            /\ DOMAIN fp.type_counts = seen
            /\ \A t \in seen :
                /\ fp.type_counts[t] = Cardinality(ObjectsOfType(w, t))
                /\ fp.type_keys[t] = UNION {ObjKeys(w[i]) : i \in ObjectsOfType(w, t)}
    /\ (gmFp # <<>> /\ gmDoc = <<>>) =>
        gmFp[1] = [type_counts |-> <<>>, type_keys |-> <<>>,
                   parsed_messages |-> 0, parse_errors |-> 1]
    /\ (ocFp # <<>> /\ ocTree.session = <<>>) =>
        ocFp[1] = [type_counts |-> <<>>, type_keys |-> <<>>, message_files_parsed |-> 0,
                   part_files_parsed |-> 0, parse_errors |-> 1, warning |-> ""]

\* a malformed line between two object lines, all three scanned
C20_Witness ==
    /\ jlFp # <<>>
    /\ Len(jlLines) = 3
    /\ jlMax = 3
    /\ jlLines[1].kind = "object"
    /\ jlLines[2].kind = "malformed"
    /\ jlLines[3].kind = "object"
    /\ jlFp[1].parse_errors = 1
    /\ CountIn(jlFp[1].type_counts, EventType(jlLines[3])) >= 1

ListedTypes(produced) ==
    {t \in {"message.user", "tool_call"} :
        \E i \in DOMAIN produced :
            /\ produced[i].type_keys # <<>>
            /\ t \in DOMAIN produced[i].type_keys[1]
            /\ produced[i].type_keys[1][t][1] = "list"}
ListedKeys(produced, t) ==
    UNION {StrKeys(produced[i].type_keys[1][t]) :
            i \in {j \in DOMAIN produced :
                    /\ produced[j].type_keys # <<>>
                    /\ t \in DOMAIN produced[j].type_keys[1]
                    /\ produced[j].type_keys[1][t][1] = "list"}}

\* C16: whatever the order in which the fingerprints were delivered, and
\* whether or not one was delivered twice, _merge_type_keys returns for each
\* type the union of the keys the fingerprints list for it, and leaves
\* every fingerprint as it was.
C16_MergeIsUnion ==
    [][mgMerged' # <<>> =>
        /\ mgProduced' = mgProduced
        /\ DOMAIN mgMerged'[1] = ListedTypes(mgProduced)
        /\ \A t \in ListedTypes(mgProduced) :
               mgMerged'[1][t] = ListedKeys(mgProduced, t)]_vars

\* two fingerprints with different keys for one type, the second delivered
\* first and the first delivered twice
C16_Witness ==
    /\ mgMerged # <<>>
    /\ mgQueue = <<2, 1, 1>>
    /\ mgProduced[1].type_keys # <<>>
    /\ mgProduced[2].type_keys # <<>>
    /\ "message.user" \in DOMAIN mgMerged[1]
    /\ mgMerged[1]["message.user"] = {"role", "id"}

IsDriftEntry(e) == e.path # <<>> /\ \E i \in DOMAIN e.path[1] : e.path[1][i] = "schema_drift"
\* the objects a file holds, each with the type it is recorded under
ObjectsIn(e) ==
    IF e.file = <<>> THEN {}
    ELSE IF e.file[1] = "jsonl"
    THEN {<<EventType(e.file[2][i]), ObjKeys(e.file[2][i])>> :
            i \in {j \in DOMAIN e.file[2] : e.file[2][j].kind = "object"}}
    ELSE IF e.file[2] = <<>> THEN {}
    ELSE LET root == e.file[2][1]
             items == IF root.messages # <<>> /\ root.messages[1] = "list"
                      THEN root.messages[2] ELSE <<>>
         IN  IF blAgent = "opencode"
             THEN (IF root.kind = "dict"
                   THEN {<<t, RootKeys(root)>> : t \in {"message", "message.user", "opencode_json"}}
                   ELSE {})
             ELSE (IF root.kind = "dict" THEN {<<"root", RootKeys(root)>>} ELSE {})
                  \cup {<<EventType(items[i]), ObjKeys(items[i])>> : i \in DOMAIN items}
CleanEntries == {blPaths[i] : i \in {j \in DOMAIN blPaths : ~IsDriftEntry(blPaths[j])}}

\* C17: every type in the baseline of a producer, and every key listed for
\* it, occurs in a file of the list whose path does not contain
\* "schema_drift"; and the fixtures list of the weekly report holds no
\* path that contains "schema_drift".
C17_DriftFixturesExcluded ==
    /\ blTypeKeys # <<>> =>
        \A t \in DOMAIN blTypeKeys[1] :
            /\ \E e \in CleanEntries : \E o \in ObjectsIn(e) : o[1] = t
            /\ \A k \in blTypeKeys[1][t] :
                \E e \in CleanEntries : \E o \in ObjectsIn(e) : o[1] = t /\ k \in o[2]
    /\ blReport # <<>> =>
        \A i \in DOMAIN blReport[1].fixtures : ~IsDriftEntry(blReport[1].fixtures[i])

\* a drift fixture with a key no other file has stands beside an ordinary
\* fixture; the baseline is reported without that key
C17_Witness ==
    /\ blReport # <<>>
    /\ blAgent = "codex"
    /\ Len(blPaths) = 2
    /\ blPaths[1].path = <<<<"fixtures/", "schema_drift", ".jsonl">>>>
    /\ blPaths[1].file # <<>>
    /\ \E o \in ObjectsIn(blPaths[1]) : o = <<"message.user", {"type", "role", "content"}>>
    /\ blReport[1].type_keys = [t \in {"message.user"} |-> {"type", "role"}]
    /\ Len(blReport[1].fixtures) = 1

SourceOk(i) == upstream_sources[i].kind # "not_a_dict" /\ _fetch_upstream(upstream_sources[i]).ok
DictSources == {i \in DOMAIN upstream_sources : upstream_sources[i].kind # "not_a_dict"}

\* C18: the sources are fetched in list order up to the first that reports
\* success and none after it; every source fetched before it is recorded in
\* upstream_errors; and monitoring_failed is false whenever a fetched
\* source reported success.
C18_UpstreamFallback ==
    upPc = "done" =>
        LET oks == {i \in DictSources : SourceOk(i)}
            last == IF oks = {} THEN Len(upstream_sources)
                    ELSE CHOOSE i \in oks : \A j \in oks : i <= j
            tried == {i \in DictSources : i <= last}
        IN  /\ {fetchLog[k] : k \in DOMAIN fetchLog} = tried
            /\ \A k \in DOMAIN fetchLog : k > 1 => fetchLog[k - 1] < fetchLog[k]
            /\ Len(upstream_errors) = Cardinality({i \in tried : ~SourceOk(i)})
            /\ (\E k \in DOMAIN fetchLog : SourceOk(fetchLog[k])) => ~up_monitoring_failed

\* C19: a probe whose command runs into the timeout gets exit code 124 and
\* one whose binary is missing gets 127; both results have ok = false, as
\* has every result with a non-zero exit code; and probe_failed is true
\* exactly when some probe result is not ok.
C19_TimeoutIsFailure ==
    /\ \A k \in DOMAIN prResults :
        LET p == probes_cfg[prResults[k].at]
            r == prResults[k].res
        IN  /\ (p.argv_ok /\ p.run.how = "timeout") => (r.exit_code = <<124>> /\ ~r.ok)
            /\ (p.argv_ok /\ p.run.how = "not_found") => (r.exit_code = <<127>> /\ ~r.ok)
            /\ (r.exit_code # <<>> /\ r.exit_code # <<0>>) => ~r.ok
    /\ prPc = "done" => (any_probe_failed <=> \E k \in DOMAIN prResults : ~prResults[k].res.ok)

\* a probe that succeeded followed by one that timed out
C19_Witness ==
    /\ prPc = "done"
    /\ Len(prResults) = 2
    /\ prResults[1].res.ok
    /\ probes_cfg[2].run.how = "timeout"
    /\ prResults[2].res.exit_code = <<124>>
    /\ any_probe_failed

\* the message files the tree fingerprint reads
OcWindow == FirstItems(ocTree.messages, ocMaxMessages)
OcSessionOk == ocTree.session # <<>> /\ ocTree.session[1].kind = "dict" /\ ocTree.session[1].id = "ok"
OcSessionOnly ==
    [type_counts |-> [t \in {"session"} |-> 1],
     type_keys |-> [t \in {"session"} |-> OcSessionKeys(ocTree.session[1])],
     message_files_parsed |-> 0, part_files_parsed |-> 0, parse_errors |-> 0]
OcWithoutWarning(fp) == [f \in DOMAIN fp \ {"warning"} |-> fp[f]]
OcNoPartDirs == \A i \in DOMAIN OcWindow : OcWindow[i].parts = <<>>

Budget(n) == IF n < 0 THEN 0 ELSE n
RECURSIVE SumCounts(_)
SumCounts(counts) ==
    IF DOMAIN counts = {} THEN 0
    ELSE LET t == CHOOSE x \in DOMAIN counts : TRUE
         IN  counts[t] + SumCounts([u \in DOMAIN counts \ {t} |-> counts[u]])
CountsWithout(counts, t) == [u \in DOMAIN counts \ {t} |-> counts[u]]
PartTypes(fp) == {t \in DOMAIN fp.type_counts : t \in {"part", "part.text"}}

\* C22: the JSONL fingerprint reports at most max_lines parsed lines and
\* counts at most that many records; the Gemini fingerprint reports and
\* counts at most max_messages messages next to its root record; the tree
\* fingerprint counts at most max_messages message records and at most
\* max_parts part records over all messages together, and its parse errors
\* fit in what is left of the two budgets; with a budget of zero or less
\* nothing of that kind is ingested.
C22_ScanBudget ==
    /\ jlFp # <<>> =>
        /\ jlFp[1].parsed_lines <= Budget(jlMax)
        /\ SumCounts(jlFp[1].type_counts) + jlFp[1].parse_errors <= jlFp[1].parsed_lines
    /\ (gmFp # <<>> /\ gmDoc # <<>>) =>
        /\ gmFp[1].parsed_messages <= Budget(gmMax)
        /\ SumCounts(CountsWithout(gmFp[1].type_counts, "root")) <= Budget(gmMax)
    /\ (ocFp # <<>> /\ ocTree.session # <<>>) =>
        LET fp == ocFp[1]
            parts == SumCounts([t \in PartTypes(fp) |-> fp.type_counts[t]])
        IN  /\ fp.message_files_parsed <= Budget(ocMaxMessages)
            /\ fp.part_files_parsed <= Budget(ocMaxParts)
            /\ parts = fp.part_files_parsed
            /\ SumCounts(CountsWithout(fp.type_counts, "session")) = fp.message_files_parsed + parts
            /\ fp.parse_errors <= (Budget(ocMaxMessages) - fp.message_files_parsed)
                                    + (Budget(ocMaxParts) - fp.part_files_parsed)

\* two messages with one part file each and a budget of one part: the
\* unparsable part of the first message uses the budget up
C22_Witness ==
    /\ ocFp # <<>>
    /\ OcSessionOk
    /\ ocTree.storage = "ok"
    /\ ocMaxMessages = 2
    /\ ocMaxParts = 1
    /\ Len(ocTree.messages) = 2
    /\ ocTree.messages[1].parts = <<<<[kind |-> "unparsable", type |-> "absent"]>>>>
    /\ ocTree.messages[2].parts = <<<<[kind |-> "dict", type |-> "text"]>>>>
    /\ ocFp[1].message_files_parsed = 2
    /\ ocFp[1].part_files_parsed = 0
    /\ ocFp[1].parse_errors = 1

\* the last cap items of a list
LastItems(items, cap) == SubSeq(items, Len(items) - (IF Budget(cap) < Len(items) THEN Budget(cap) ELSE Len(items)) + 1, Len(items))
GeminiItems == IF gmDoc # <<>> /\ gmDoc[1].messages # <<>> /\ gmDoc[1].messages[1] = "list" THEN gmDoc[1].messages[2] ELSE <<>>
ObjectItems(w) == {i \in DOMAIN w : w[i].kind = "object"}
DictMessages(w) == {i \in DOMAIN w : w[i].kind = "dict"}
MessageType(m) == IF m.role = "user" THEN "message.user" ELSE "message"

\* C23: each extractor fingerprints exactly the last cap records of its
\* input: the JSONL fingerprint counts the object lines among the last
\* max_lines non-blank lines, the Gemini fingerprint the objects among the
\* last max_messages messages, the tree fingerprint the message records
\* among the last max_messages message files, each type with the number of
\* its records in that window and the union of their keys.
C23_LastRecordsKept ==
    /\ jlFp # <<>> =>
        LET w == ScanWindow IN
        \A t \in {EventType(w[i]) : i \in ObjectItems(w)} \cup DOMAIN jlFp[1].type_counts :
            /\ CountIn(jlFp[1].type_counts, t) = Cardinality(ObjectsOfType(w, t))
            /\ t \in DOMAIN jlFp[1].type_keys
            /\ jlFp[1].type_keys[t] = UNION {ObjKeys(w[i]) : i \in ObjectsOfType(w, t)}
    /\ (gmFp # <<>> /\ gmDoc # <<>>) =>
        LET w == LastItems(GeminiItems, gmMax) IN
        \A t \in {EventType(w[i]) : i \in ObjectItems(w)} \cup (DOMAIN gmFp[1].type_counts \ {"root"}) :
            /\ CountIn(gmFp[1].type_counts, t) = Cardinality(ObjectsOfType(w, t))
            /\ t \in DOMAIN gmFp[1].type_keys
            /\ gmFp[1].type_keys[t] = UNION {ObjKeys(w[i]) : i \in ObjectsOfType(w, t)}
    /\ (ocFp # <<>> /\ OcSessionOk /\ ocTree.storage = "ok") =>
        LET w == LastItems(ocTree.messages, ocMaxMessages) IN
        \A t \in {"message", "message.user"} :
            /\ CountIn(ocFp[1].type_counts, t) = Cardinality({i \in DictMessages(w) : MessageType(w[i]) = t})
            /\ t \in DOMAIN ocFp[1].type_keys =>
                ocFp[1].type_keys[t] = UNION {OcMessageKeys(w[i]) : i \in {j \in DictMessages(w) : MessageType(w[j]) = t}}

Scanned == DOMAIN runResults
Risky == \E a \in Scanned : runResults[a].severity \in {"medium", "high"}

\* C24: once main() has passed its output step, a daily run has printed the
\* summary exactly when some scanned agent has final severity medium or
\* high, and a weekly run has printed it in every case; at the return
\* report.json holds the results of every scanned agent and the exit code
\* is 0.
C24_OutputPolicy ==
    /\ runPc \in {"return", "exit"} =>
        /\ mode = "daily" => (printed # <<>> <=> Risky)
        /\ mode = "weekly" => printed # <<>>
        /\ printed # <<>> => printed[1] = summary_lines
        /\ report_json = <<[mode |-> mode, results |-> runResults]>>
    /\ runPc = "exit" => exit_code = <<0>>
    /\ runPc # "exit" => exit_code = <<>>

\* a daily run whose only finding is of low severity: nothing printed,
\* report written, exit code 0
C24_Witness ==
    /\ runPc = "exit"
    /\ mode = "daily"
    /\ Scanned = {"claude", "codex"}
    /\ runResults["claude"].severity = "low"
    /\ runResults["codex"].severity = "none"
    /\ summary_lines # <<>>
    /\ printed = <<>>
    /\ report_json # <<>>
    /\ exit_code = <<0>>

\* C29: in every loop body probe_failed_but_upstream_degraded implies
\* probe_failed; the flag is set only in a weekly run, only for the agent
\* claude, and only when the claude_status probe reports degradation and a
\* claude_usage_probe result exists and is not ok; with the flag set and no
\* monitoring failure the pick is (medium, monitor).
C29_DegradedImpliesFailed ==
    lastScan # <<>> =>
        LET scan == lastScan[1] IN
        /\ scan.probe_failed_but_upstream_degraded =>
                /\ scan.probe_failed
                /\ mode = "weekly"
                /\ scan.agent = "claude"
                /\ scan.status_degraded
                /\ scan.usage_failed
                /\ scan.picked \in {<<"medium", "monitor">>, <<"high", "prepare_hotfix">>}
        /\ (scan.probe_failed /\ ~scan.probe_failed_but_upstream_degraded) => scan.picked[1] = "high"

\* rule 3 is reached: the flag is set and the pick is (medium, monitor)
C29_Witness ==
    /\ lastScan # <<>>
    /\ lastScan[1].probe_failed_but_upstream_degraded
    /\ lastScan[1].probe_failed
    /\ lastScan[1].picked = <<"medium", "monitor">>
    /\ runResults["claude"] = [severity |-> "medium", recommendation |-> "monitor"]

Gone(i) == onDisk[i] \in {"deleted", "moved"}
\* the files of this run for which both match signals hold
DroidSignals(file) == file.marker /\ file.cwd
NoPromptSignals(row) ==
    /\ TitleMatches(row.title, purgeArgs.include_blank)
    /\ row.exists
    /\ row.under_root
    /\ ~row.assistant
BothSignals(i) ==
    IF purgeScript = "droid" THEN DroidSignals(purgeFiles[i]) ELSE NoPromptSignals(purgeFiles[i])

\* C25: a session file is deleted or moved only in a run given --execute
\* and a --confirm equal to "delete N sessions", N the number of eligible
\* files of that run, and only if the file satisfies both match signals
\* (droid: the marker is in its content and the encoded cwd name in its
\* path; no-prompt: the title matches, its content has no assistant
\* message, and it lies under the allowed root); without --execute every
\* file stays where it is.
C25_PurgeSafety ==
    \A i \in DOMAIN onDisk :
        /\ Gone(i) =>
            /\ purgeArgs.execute
            /\ purgeArgs.confirm = Expected(Len(to_delete))
            /\ BothSignals(i)
        /\ ~purgeArgs.execute => onDisk[i] = "present"

\* the keys of the payload that are output-like and input-like once
\* normalised: exitCode and stdout on one side, command and " CWD " on the
\* other; exitStatus normalises to exit_status and filePath to file_path,
\* which neither set of the code holds
OutputLike == {k \in dirPayload.keys : normalize_field_name(k) \in output_keys}
InputLike == {k \in dirPayload.keys : normalize_field_name(k) \in input_keys}
ExitCodeKey == <<"e", "x", "i", "t", "C", "o", "d", "e">>
CommandKey == <<"c", "o", "m", "m", "a", "n", "d">>
PaddedCwdKey == <<" ", "C", "W", "D", " ">>

\* C26: infer_direction_from_payload returns output whenever the payload
\* object has an output-like key after field-name normalisation, input
\* whenever it has an input-like key and no output-like key, and unknown
\* otherwise, which includes every payload that is not a JSON object; the
\* result is always one of input, output, unknown.
C26_DirectionInference ==
    dirResult # <<>> =>
        /\ dirResult[1] \in {"input", "output", "unknown"}
        /\ dirPayload.kind # "dict" => dirResult[1] = "unknown"
        /\ dirPayload.kind = "dict" =>
            /\ OutputLike # {} => dirResult[1] = "output"
            /\ (OutputLike = {} /\ InputLike # {}) => dirResult[1] = "input"
            /\ (OutputLike = {} /\ InputLike = {}) => dirResult[1] = "unknown"
        /\ ExitCodeKey \in dirPayload.keys => dirResult[1] = "output"
        /\ (PaddedCwdKey \in dirPayload.keys /\ OutputLike = {}) => dirResult[1] = "input"

\* an object with both the camel-case exitCode and command was classified,
\* and the output-like key won
C26_Witness ==
    /\ dirPayload.kind = "dict"
    /\ {ExitCodeKey, CommandKey} \subseteq dirPayload.keys
    /\ dirResult = <<"output">>

IsObject(e) == e.kind = "dict"
\* C27: for a document whose array is the whole document or sits under the
\* key messages, split_json_array_items returns one item per top-level
\* element, each the complete source text of that element, whatever commas
\* and brackets the element's objects, nested arrays and string literals
\* hold, and iter_json_items_with_raw yields one record per object element.
C27_OneItemPerElement ==
    (spDone /\ spDoc.wrap \in {"bare", "messages"}) =>
        /\ raw_items = ElementTexts(spDoc)
        /\ spYielded = ElementTexts([spDoc EXCEPT !.elems = SelectSeq(@, IsObject)])

IsSubstring(piece, text) ==
    \E p \in 1..Len(text) :
        p + Len(piece) - 1 <= Len(text) /\ SubSeq(text, p, p + Len(piece) - 1) = piece
\* C28: every raw_json extract_text_tool_blocks returns is a substring of
\* the text that begins with an opening brace and ends with the closing
\* brace matching it, whatever line terminators the text uses, and no
\* (tool_name, raw_json) pair is returned twice.
C28_RawJsonIsBalancedSubstring ==
    tbDone =>
        /\ \A i \in DOMAIN tbResults :
              LET raw_json == tbResults[i].raw_json IN
              /\ raw_json # <<>>
              /\ raw_json[1] = "{"
              /\ raw_json[Len(raw_json)] = "}"
              /\ extract_balanced_braces(raw_json, 1) = <<raw_json>>
              /\ IsSubstring(raw_json, tbText)
        /\ \A i, j \in DOMAIN tbResults :
              (tbResults[i].tool_name = tbResults[j].tool_name /\ tbResults[i].raw_json = tbResults[j].raw_json) => i = j

\* the counts of one catalog agree with one another
CountsAgree(cat) ==
    LET summary == build_catalog(cat) IN
    /\ CountSum(cat.groups, DOMAIN cat.groups) = CountSum(cat.shapes, DOMAIN cat.shapes)
    /\ \A g \in DOMAIN cat.shapes :
          /\ cat.shapes[g].count = ValueSum(cat.shapes[g].directions, DOMAIN cat.shapes[g].directions)
          /\ cat.shapes[g].count = CountSum(cat.groups, {k \in DOMAIN cat.groups : k[3] = g})
    /\ \A k \in DOMAIN cat.groups :
          /\ cat.groups[k].count >= 1
          /\ cat.groups[k].parse_success <= cat.groups[k].count
    /\ summary.total_tool_blocks = ValueSum(summary.shape_counts, DOMAIN summary.shape_counts)

\* C30: after any sequence of add_tool_block calls the sum of count over
\* the groups equals the sum of count over the shapes and the number of
\* calls made; each shape's count is the sum of its per-direction counts
\* and the sum of the counts of the groups carrying its signature;
\* parse_success <= count in every group; build_catalog's
\* total_tool_blocks is the sum of its shape_counts.  The calls made on the
\* first catalog are the blocks handed on to the second scan, the calls
\* made on the second are those no longer pending.
C30_CountConservation ==
    /\ CountsAgree(catA)
    /\ CountsAgree(catB)
    /\ catB = EmptyCatalog =>
          CountSum(catA.groups, DOMAIN catA.groups) = BagCardinality(pendingB)
    /\ CountSum(catB.groups, DOMAIN catB.groups) + BagCardinality(pendingB) =
          CountSum(catA.groups, DOMAIN catA.groups)

\* two calls of one shape signature went to two different groups
C30_Witness ==
    \E g \in DOMAIN catA.shapes :
        /\ catA.shapes[g].count = 2
        /\ Cardinality({k \in DOMAIN catA.groups : k[3] = g}) = 2
        /\ Cardinality(DOMAIN catA.shapes[g].directions) = 2
        /\ \E k \in DOMAIN catA.groups : catA.groups[k].parse_success < catA.groups[k].count

====
